---- MODULE Spec2Model ----
(***************************************************************************)
(* Model of the Notion automation scripts                                  *)
(*   automation/update_business_state.py  (BusinessStateSynchronizer)      *)
(*   automation/sync_databases.py         (company reconciliation)         *)
(*   automation/sync_oi_issue_list.py     (issue reconciliation + mirror)  *)
(*                                                                         *)
(* Text is a sequence of characters (one-character strings), so that       *)
(* Python's string concatenation, join and prefix relation are sequence    *)
(* operations.  Non-ASCII literals of the source are written in ASCII:     *)
(*   the arrow of a log entry is "->", the title field of the SU Long List *)
(*   is "KigyoMei", the two run outcomes are "Success" and "Failure".      *)
(***************************************************************************)
EXTENDS Integers, Sequences, FiniteSets, TLC

VARIABLES
  today,             \* datetime.now().date(), as a day number
  cfg_reset_days,    \* business_state_reset_days of schedule_config.yml, or None
  su_pages,          \* FIL_SU_LONG_LIST: sequence of pages, in the store's order
  status_pages,      \* FIL_STATUS_REPORT: sequence of pages, in the store's order
  issue_pages,       \* OI_ISSUE_LIST: sequence of pages, in the store's order
  share_pages,       \* OI_LIST_SHARE_RS: sequence of pages, in the store's order
  pc,                \* position of the running script ("idle": no script runs)
  companies,         \* update_business_state: the list of active companies
  recon,             \* reconciliation: the dicts read and the missing list
  idx,               \* loop index into the list the current pass iterates
  updated_page_ids,  \* process_active_companies: ids synced in this run
  reset_days,        \* reset_old_business_state_styles: loaded threshold
  counts,            \* the success / failure counters of the current pass
  status,            \* status handed to save_execution_log
  exit_code,         \* main's exit_code; the process exits with it
  logged,            \* the status save_execution_log received in this run, or None
  writes,            \* history: the pages.update / pages.create calls of this run
  prev,              \* history: what the previous run did, and what happened since
  edits,             \* number of external edits so far
  call,              \* a function applied on its own: its arguments and result
  sys_stdout         \* sys.stdout: the original stream, or the LogCapture object

vars == <<today, cfg_reset_days, su_pages, status_pages, issue_pages,
          share_pages, pc, companies, recon, idx, updated_page_ids, reset_days,
          counts, status, exit_code, logged, writes, prev, edits, call,
          sys_stdout>>

\* the stores and the variables update_business_state.main never touches
other_stores == <<status_pages, issue_pages, share_pages, recon>>

\* the counters of a pass, all 0
ZeroCounts == [ok |-> 0, error |-> 0, skipped |-> 0, updated |-> 0]

\* no function is applied on its own
NoCall == [ fn |-> "none", args |-> <<>>, result |-> <<>> ]

\* Python's None / an absent value is the empty sequence, a present value v is <<v>>
None == <<>>
Some(v) == <<v>>

-----------------------------------------------------------------------------
(* Bounds of the model *)

\* last day the clock reaches
MaxDay == 15
\* external edits of Business State / Active Flag over a behaviour
MaxEdits == 1

-----------------------------------------------------------------------------
(* Text helpers *)

\* str.startswith: p is a prefix of s
IsPrefix(p, s) == Len(p) <= Len(s) /\ SubSeq(s, 1, Len(p)) = p

\* ''.join([t['plain_text'] for t in fragments])
RECURSIVE PlainText(_)
PlainText(fragments) ==
  IF fragments = <<>> THEN <<>>
  ELSE fragments[1].plain_text \o PlainText(Tail(fragments))

\* one rich-text fragment as the store returns it
Fragment(text, bold, color) == [plain_text |-> text, bold |-> bold, color |-> color]

\* {"text": {"content": c}, "annotations": {"bold": True, "color": "orange"}}
StyledRichText(content) == << Fragment(content, TRUE, "orange") >>

\* {"text": {"content": c}}: the store fills in the default annotations
DefaultRichText(content) == << Fragment(content, FALSE, "default") >>

-----------------------------------------------------------------------------
(* automation/update_business_state.py *)

\* _load_reset_days(default_days=14)
DefaultResetDays == 14

\* days after which strftime("%m/%d") repeats
DaysPerYear == 365

\* first day of the model's clock
StartDay == DefaultResetDays

\* the names of the two run outcomes handed to save_execution_log
Success == "Success"
Failure == "Failure"

\* _load_reset_days: the configured value when the file has one, else the default
LoadResetDays(cfg) == IF cfg = None THEN DefaultResetDays ELSE cfg[1]

\* now.strftime("%m/%d")
StrfMonthDay(day) == << ToString(day % DaysPerYear) >>

\* get_company_name on page['properties'], a list of <<name, value>> in the
\* dict's order: the text of the first property of type title that has a
\* fragment
RECURSIVE FirstTitleProperty(_)
FirstTitleProperty(properties) ==
  IF properties = <<>> THEN None
  ELSE IF properties[1][2].type = "title" /\ properties[1][2].title # <<>>
       THEN Some(PlainText(properties[1][2].title))
       ELSE FirstTitleProperty(Tail(properties))

\* get_company_name on a page of the SU Long List, which has one title property
BSGetCompanyName(page) ==
  FirstTitleProperty(<< <<"KigyoMei", [ type |-> "title", title |-> page.title ]>> >>)

\* the Active Flag test of get_active_companies: a select named 'Active'
BSIsActive(page) ==
  /\ page.Active_Flag.type = "select"
  /\ page.Active_Flag.value # None
  /\ page.Active_Flag.value[1] = "Active"

\* '_business_state_styled': bold and orange on the first fragment; the key is
\* only set when the rich text is not empty and is read with default False
BusinessStateStyled(rich_text) ==
  /\ rich_text # <<>>
  /\ rich_text[1].bold
  /\ rich_text[1].color = "orange"

\* company_info built by get_active_companies for one page
CompanyInfo(page) ==
  [ page_id |-> page.id,
    company_name |-> BSGetCompanyName(page)[1],
    properties |->
      [ Business_State |-> PlainText(page.Business_State),
        business_state_styled |-> BusinessStateStyled(page.Business_State),
        status_buffer |-> page.status_buffer,
        Last_State |-> page.Last_State,
        business_state_log |-> page.business_state_log,
        business_status_update_day |-> page.business_status_update_day ] ]

\* get_active_companies: the active pages with a non-empty name, in fetch order
RECURSIVE GetActiveCompanies(_)
GetActiveCompanies(pages) ==
  IF pages = <<>> THEN <<>>
  ELSE LET page == pages[1]
           name == BSGetCompanyName(page)
           rest == GetActiveCompanies(Tail(pages))
       IN IF BSIsActive(page) /\ name # None /\ name[1] # <<>>
          THEN <<CompanyInfo(page)>> \o rest
          ELSE rest

\* sync_business_state: new_log_entry and updated_log
NewLogEntry(business_state, day) ==
  <<"->">> \o business_state \o <<"(">> \o StrfMonthDay(day) \o <<")">>

\* mutant: the log is overwritten by the new entry
UpdatedLog_Overwrite(business_state_log, business_state, day) ==
  NewLogEntry(business_state, day)

UpdatedLog(business_state_log, business_state, day) ==
  IF business_state_log # <<>>
  THEN business_state_log \o <<"\n">> \o NewLogEntry(business_state, day)
  ELSE NewLogEntry(business_state, day)

\* mutant: Last State receives the new state instead of the old status_buffer
SyncUpdateProperties_WrongLastState(business_state, status_buffer, business_state_log, day) ==
  [ Business_State |-> StyledRichText(business_state),
    Last_State |-> business_state,
    status_buffer |-> business_state,
    business_status_update_day |-> Some(day),
    business_state_log |-> UpdatedLog(business_state_log, business_state, day) ]

\* sync_business_state: update_properties (apply_style=True)
SyncUpdateProperties(business_state, status_buffer, business_state_log, day) ==
  [ Business_State |-> StyledRichText(business_state),
    Last_State |-> status_buffer,
    status_buffer |-> business_state,
    business_status_update_day |-> Some(day),
    business_state_log |-> UpdatedLog(business_state_log, business_state, day) ]

\* mutant: the reset also rewrites status_buffer
ResetUpdateProperties_WritesBuffer(business_state) ==
  [ Business_State |-> DefaultRichText(business_state),
    status_buffer |-> business_state ]

\* reset_business_state_style: update_properties
ResetUpdateProperties(business_state) ==
  [ Business_State |-> DefaultRichText(business_state) ]

\* the store's pages.update: the named properties are replaced, the others kept
UpdatePage(page, properties) ==
  [ f \in DOMAIN page |->
      IF f \in DOMAIN properties THEN properties[f] ELSE page[f] ]

\* pages.update(page_id=..., properties=...) on the SU Long List
UpdateStore(pages, page_id, properties) ==
  [ k \in DOMAIN pages |->
      IF pages[k].id = page_id THEN UpdatePage(pages[k], properties)
      ELSE pages[k] ]

PageById(pages, page_id) ==
  pages[CHOOSE k \in DOMAIN pages : pages[k].id = page_id]

\* mutant: every company is synced
NeedsSync_Always(company) == company.page_id = company.page_id

\* process_active_companies: the test that triggers sync_business_state
NeedsSync(company) ==
  company.properties.Business_State # company.properties.status_buffer

\* a cutoff that leaves out the window
CutoffDate_NoWindow(day, days) == day

\* reset_old_business_state_styles: cutoff_date
CutoffDate(day, days) == day - days

\* mutant: the just-updated pages are not skipped
NeedsReset_NoSkip(company, skip_page_ids, cutoff_date) ==
  /\ company.properties.business_state_styled
  /\ company.properties.business_status_update_day # None
  /\ company.properties.business_status_update_day[1] <= cutoff_date

\* mutant: strictly older than the cutoff
NeedsReset_Strict(company, skip_page_ids, cutoff_date) ==
  /\ company.page_id \notin skip_page_ids
  /\ company.properties.business_state_styled
  /\ company.properties.business_status_update_day # None
  /\ company.properties.business_status_update_day[1] < cutoff_date

\* mutant: the styled flag is not consulted
NeedsReset_NoStyleCheck(company, skip_page_ids, cutoff_date) ==
  /\ company.page_id \notin skip_page_ids
  /\ company.properties.business_status_update_day # None
  /\ company.properties.business_status_update_day[1] <= cutoff_date

\* reset_old_business_state_styles: the test that triggers
\* reset_business_state_style for a company of the snapshot
NeedsReset(company, skip_page_ids, cutoff_date) ==
  /\ company.page_id \notin skip_page_ids
  /\ company.properties.business_state_styled
  /\ company.properties.business_status_update_day # None
  /\ company.properties.business_status_update_day[1] <= cutoff_date

\* one pages.update call as the history records it
WriteRecord(op, page_id, properties, ok, before) ==
  [ op |-> op, page_id |-> page_id, properties |-> properties, ok |-> ok,
    before |-> before ]


(* The run of update_business_state.main, one step per loop iteration *)

\* main up to the first pass: get_active_companies took the snapshot
BSStart ==
  /\ pc = "idle"
  /\ pc' = "bs_sync"
  /\ companies' = GetActiveCompanies(su_pages)
  /\ idx' = 1
  /\ updated_page_ids' = {}
  /\ counts' = ZeroCounts
  /\ status' = Success
  /\ logged' = None
  /\ writes' = <<>>
  /\ prev' = [prev EXCEPT !.rerun = prev.quiet, !.aborted = FALSE]
  /\ sys_stdout' = "capture"
  /\ UNCHANGED <<call, today, cfg_reset_days, su_pages, other_stores, reset_days,
                 exit_code, edits>>

\* main: get_active_companies raises (a page query fails); the except branch
\* sets the failure status and no pass runs
BSFetchFails ==
  /\ pc = "idle"
  /\ pc' = "bs_finally"
  /\ companies' = <<>>
  /\ idx' = 1
  /\ updated_page_ids' = {}
  /\ counts' = ZeroCounts
  /\ status' = Failure
  /\ logged' = None
  /\ writes' = <<>>
  /\ prev' = [prev EXCEPT !.rerun = prev.quiet, !.aborted = TRUE]
  /\ sys_stdout' = "capture"
  /\ UNCHANGED <<call, today, cfg_reset_days, su_pages, other_stores, reset_days,
                 exit_code, edits>>

\* mutant: a failed update ends the pass
BSSyncWrite_AbortsOnFailure(ok) ==
  /\ pc = "bs_sync"
  /\ idx <= Len(companies)
  /\ NeedsSync(companies[idx])
  /\ LET company == companies[idx]
         properties == company.properties
         update_properties ==
           SyncUpdateProperties(properties.Business_State,
                                properties.status_buffer,
                                properties.business_state_log, today)
     IN /\ su_pages' = IF ok
                       THEN UpdateStore(su_pages, company.page_id, update_properties)
                       ELSE su_pages
        /\ updated_page_ids' = IF ok
                               THEN updated_page_ids \cup {company.page_id}
                               ELSE updated_page_ids
        /\ counts' = IF ok THEN [counts EXCEPT !.ok = @ + 1]
                     ELSE [counts EXCEPT !.error = @ + 1]
        /\ writes' = Append(writes,
                            WriteRecord("sync", company.page_id, update_properties,
                                        ok, PageById(su_pages, company.page_id)))
  /\ idx' = IF ok THEN idx + 1 ELSE Len(companies) + 1
  /\ UNCHANGED <<sys_stdout, call, logged, today, cfg_reset_days, other_stores, pc, companies, reset_days,
                 status, exit_code, prev, edits>>

\* an update that raises after the store has applied it
BSSyncWrite_AppliedOnFailure(ok) ==
  /\ pc = "bs_sync"
  /\ idx <= Len(companies)
  /\ NeedsSync(companies[idx])
  /\ LET company == companies[idx]
         properties == company.properties
         update_properties ==
           SyncUpdateProperties(properties.Business_State,
                                properties.status_buffer,
                                properties.business_state_log, today)
     IN /\ su_pages' = UpdateStore(su_pages, company.page_id, update_properties)
        /\ updated_page_ids' = IF ok
                               THEN updated_page_ids \cup {company.page_id}
                               ELSE updated_page_ids
        /\ counts' = IF ok THEN [counts EXCEPT !.ok = @ + 1]
                     ELSE [counts EXCEPT !.error = @ + 1]
        /\ writes' = Append(writes,
                            WriteRecord("sync", company.page_id, update_properties,
                                        ok, PageById(su_pages, company.page_id)))
  /\ idx' = idx + 1
  /\ UNCHANGED <<sys_stdout, call, logged, today, cfg_reset_days, other_stores, pc, companies, reset_days,
                 status, exit_code, prev, edits>>

\* process_active_companies, one company whose Business State differs from its
\* status_buffer: sync_business_state issues its update, which succeeds or raises
BSSyncWrite(ok) ==
  /\ pc = "bs_sync"
  /\ idx <= Len(companies)
  /\ NeedsSync(companies[idx])
  /\ LET company == companies[idx]
         properties == company.properties
         update_properties ==
           SyncUpdateProperties(properties.Business_State,
                                properties.status_buffer,
                                properties.business_state_log, today)
     IN /\ su_pages' = IF ok
                       THEN UpdateStore(su_pages, company.page_id, update_properties)
                       ELSE su_pages
        /\ updated_page_ids' = IF ok
                               THEN updated_page_ids \cup {company.page_id}
                               ELSE updated_page_ids
        /\ counts' = IF ok THEN [counts EXCEPT !.ok = @ + 1]
                     ELSE [counts EXCEPT !.error = @ + 1]
        /\ writes' = Append(writes,
                            WriteRecord("sync", company.page_id, update_properties,
                                        ok, PageById(su_pages, company.page_id)))
  /\ idx' = idx + 1
  /\ UNCHANGED <<sys_stdout, call, logged, today, cfg_reset_days, other_stores, pc, companies, reset_days,
                 status, exit_code, prev, edits>>

\* process_active_companies, one company that is already in sync
BSSyncSkip ==
  /\ pc = "bs_sync"
  /\ idx <= Len(companies)
  /\ ~NeedsSync(companies[idx])
  /\ idx' = idx + 1
  /\ UNCHANGED <<sys_stdout, call, logged, today, cfg_reset_days, su_pages, other_stores, pc, companies,
                 updated_page_ids, reset_days, counts, status, exit_code,
                 writes, prev, edits>>

\* main: process_active_companies returned; reset_old_business_state_styles
\* starts with skip_page_ids = updated_page_ids and loads the threshold
BSBeginReset ==
  /\ pc = "bs_sync"
  /\ idx > Len(companies)
  /\ pc' = "bs_reset"
  /\ idx' = 1
  /\ reset_days' = LoadResetDays(cfg_reset_days)
  /\ counts' = ZeroCounts
  /\ UNCHANGED <<sys_stdout, call, logged, today, cfg_reset_days, su_pages, other_stores, companies,
                 updated_page_ids, status, exit_code, writes, prev, edits>>

\* reset_old_business_state_styles, one company that is styled, not just
\* updated and old enough: reset_business_state_style issues its update
BSResetWrite(ok) ==
  /\ pc = "bs_reset"
  /\ idx <= Len(companies)
  /\ NeedsReset(companies[idx], updated_page_ids, CutoffDate(today, reset_days))
  /\ LET company == companies[idx]
         update_properties ==
           ResetUpdateProperties(company.properties.Business_State)
     IN /\ su_pages' = IF ok
                       THEN UpdateStore(su_pages, company.page_id, update_properties)
                       ELSE su_pages
        /\ counts' = IF ok THEN [counts EXCEPT !.ok = @ + 1]
                     ELSE [counts EXCEPT !.error = @ + 1]
        /\ writes' = Append(writes,
                            WriteRecord("reset", company.page_id, update_properties,
                                        ok, PageById(su_pages, company.page_id)))
  /\ idx' = idx + 1
  /\ UNCHANGED <<sys_stdout, call, logged, today, cfg_reset_days, other_stores, pc, companies,
                 updated_page_ids, reset_days, status, exit_code, prev, edits>>

\* reset_old_business_state_styles, one company it passes over
BSResetSkip ==
  /\ pc = "bs_reset"
  /\ idx <= Len(companies)
  /\ ~NeedsReset(companies[idx], updated_page_ids, CutoffDate(today, reset_days))
  /\ counts' = IF /\ companies[idx].page_id \notin updated_page_ids
                  /\ ~companies[idx].properties.business_state_styled
               THEN [counts EXCEPT !.skipped = @ + 1]
               ELSE counts
  /\ idx' = idx + 1
  /\ UNCHANGED <<sys_stdout, call, logged, today, cfg_reset_days, su_pages, other_stores, pc, companies,
                 updated_page_ids, reset_days, status, exit_code, writes, prev,
                 edits>>

\* main: both passes returned, "Completed" is printed
BSCompleted ==
  /\ pc = "bs_reset"
  /\ idx > Len(companies)
  /\ pc' = "bs_finally"
  /\ UNCHANGED <<sys_stdout, call, logged, today, cfg_reset_days, su_pages, other_stores, companies, idx,
                 updated_page_ids, reset_days, counts, status, exit_code,
                 writes, prev, edits>>

AllOk(ws, op) == \A k \in DOMAIN ws : ws[k].op = op => ws[k].ok

CountOps(ws, op) == Cardinality({ k \in DOMAIN ws : ws[k].op = op })

\* history of a finished run: per kind of call, whether the run got through
\* its passes with every call of that kind succeeding, and how many there were
Ops == { "sync", "reset", "create", "mirror" }

\* the script whose run is under way
RunningScript ==
  IF pc \in { "sd_create", "sd_finally" } THEN "sd"
  ELSE IF pc \in { "oi_create", "oi_mirror", "oi_finally" } THEN "oi"
  ELSE "bs"

\* the <<name, page id>> pairs of the creates of ws that succeeded
RECURSIVE OkCreated(_)
OkCreated(ws) ==
  IF ws = <<>> THEN <<>>
  ELSE (IF ws[1].op = "create" /\ ws[1].ok
        THEN << <<ws[1].name, ws[1].page_id>> >> ELSE <<>>)
       \o OkCreated(Tail(ws))

\* the items of the missing list that no create of ws has created
Unfulfilled(missing, ws) ==
  LET done == { OkCreated(ws)[k] : k \in DOMAIN OkCreated(ws) }
  IN SelectSeq(missing, LAMBDA pair : pair \notin done)

\* created: every successful create since the start; left: what the run left
\* of its missing list, when it got to compute one; last: the script that ran
PrevOfRun(ws, aborted) ==
  [ all_ok |-> [ op \in Ops |-> ~aborted /\ AllOk(ws, op) ],
    n |-> [ op \in Ops |-> CountOps(ws, op) ],
    quiet |-> TRUE, rerun |-> FALSE, aborted |-> FALSE,
    created |-> [prev.created EXCEPT ![RunningScript] = @ \o OkCreated(ws)],
    left |-> IF aborted THEN None ELSE Some(Unfulfilled(recon.missing, ws)),
    last |-> RunningScript ]

\* main: the finally block hands status to save_execution_log and main returns
BSFinally ==
  /\ pc = "bs_finally"
  /\ pc' = "idle"
  /\ exit_code' = 0
  /\ logged' = Some(status)
  /\ prev' = PrevOfRun(writes, prev.aborted)
  /\ companies' = <<>>
  /\ idx' = 1
  /\ updated_page_ids' = {}
  /\ counts' = ZeroCounts
  /\ writes' = <<>>
  /\ sys_stdout' = "original"
  /\ UNCHANGED <<call, today, cfg_reset_days, su_pages, other_stores, reset_days,
                 status, edits>>

(* The environment between two runs *)

\* a day passes
Tick ==
  /\ pc = "idle"
  /\ today < MaxDay
  /\ today' = today + 1
  /\ prev' = [prev EXCEPT !.quiet = FALSE]
  /\ UNCHANGED <<sys_stdout, call, logged, cfg_reset_days, su_pages, other_stores, pc, companies, idx,
                 updated_page_ids, reset_days, counts, status, exit_code,
                 writes, edits>>

StateSeed == <<"S">>
StateFunded == <<"F">>

\* what a user may type into Business State
EditedRichTexts ==
  { DefaultRichText(StateSeed), DefaultRichText(StateFunded),
    StyledRichText(StateFunded) }

\* a user edits the Business State of a page
EditBusinessState ==
  /\ pc = "idle"
  /\ edits < MaxEdits
  /\ \E k \in DOMAIN su_pages : \E rich_text \in EditedRichTexts :
       /\ rich_text # su_pages[k].Business_State
       /\ su_pages' = [su_pages EXCEPT ![k].Business_State = rich_text]
  /\ edits' = edits + 1
  /\ prev' = [prev EXCEPT !.quiet = FALSE]
  /\ UNCHANGED <<sys_stdout, call, logged, today, cfg_reset_days, other_stores, pc, companies, idx,
                 updated_page_ids, reset_days, counts, status, exit_code,
                 writes>>

(* Initial states: two pages of the SU Long List *)

SelectFlag(name) == [type |-> "select", value |-> Some(name)]
StatusFlag(name) == [type |-> "status", value |-> Some(name)]

Title(text) == << Fragment(text, FALSE, "default") >>

\* an active, named page in any combination of Business State, status_buffer
\* and update day
TrackedPages(id, name) ==
  { [ id |-> id, Active_Flag |-> SelectFlag("Active"), title |-> Title(name),
      Business_State |-> bs, status_buffer |-> sb, Last_State |-> <<>>,
      business_state_log |-> <<>>, business_status_update_day |-> day ] :
    bs \in { <<>>, DefaultRichText(StateSeed), StyledRichText(StateSeed),
             << Fragment(StateSeed, TRUE, "orange"),
                Fragment(StateFunded, FALSE, "default") >> },
    sb \in { <<>>, StateSeed },
    day \in { None, Some(StartDay - DefaultResetDays),
              Some(StartDay - DefaultResetDays + 1) } }

\* a page get_active_companies passes over, in the state in which both
\* transitions would apply to it: diverged, styled and old
UntrackedPages(id, name) ==
  { [ id |-> id, Active_Flag |-> flag, title |-> title,
      Business_State |-> StyledRichText(StateSeed), status_buffer |-> <<>>,
      Last_State |-> <<>>, business_state_log |-> <<>>,
      business_status_update_day |-> Some(StartDay - DefaultResetDays) ] :
    flag \in { SelectFlag("Inactive") }, title \in { Title(name) } }
  \cup
  { [ id |-> id, Active_Flag |-> SelectFlag("Active"), title |-> <<>>,
      Business_State |-> StyledRichText(StateSeed), status_buffer |-> <<>>,
      Last_State |-> <<>>, business_state_log |-> <<>>,
      business_status_update_day |-> Some(StartDay - DefaultResetDays) ] }

\* the second page: tracked and due for both transitions, tracked and at rest,
\* or passed over
SecondPages(id, name) ==
  { page \in TrackedPages(id, name) :
      \/ /\ page.Business_State = StyledRichText(StateSeed)
         /\ page.status_buffer = <<>>
         /\ page.business_status_update_day = Some(StartDay - DefaultResetDays)
      \/ /\ page.Business_State = DefaultRichText(StateSeed)
         /\ page.status_buffer = StateSeed
         /\ page.business_status_update_day = None }
  \cup { page \in UntrackedPages(id, name) : page.title # <<>> }

\* no dict has been read yet
EmptyRecon == [ active |-> <<>>, existing |-> <<>>, linked |-> {}, missing |-> <<>> ]

InitRun ==
  /\ pc = "idle"
  /\ companies = <<>>
  /\ idx = 1
  /\ updated_page_ids = {}
  /\ reset_days = DefaultResetDays
  /\ counts = ZeroCounts
  /\ status = Success
  /\ exit_code = 0
  /\ writes = <<>>
  /\ logged = None
  /\ prev = [ all_ok |-> [ op \in Ops |-> FALSE ], n |-> [ op \in Ops |-> 0 ],
             quiet |-> FALSE, rerun |-> FALSE, aborted |-> FALSE,
             created |-> [ script \in { "bs", "sd", "oi" } |-> <<>> ],
             left |-> None, last |-> "bs" ]
  /\ recon = EmptyRecon
  /\ edits = 0
  /\ call = NoCall
  /\ sys_stdout = "original"

InitBS ==
  /\ today = StartDay
  /\ cfg_reset_days \in { None, Some(1) }
  /\ \E p1 \in TrackedPages("p1", <<"A">>) \cup UntrackedPages("p1", <<"A">>) :
     \E p2 \in SecondPages("p2", <<"B">>) :
       su_pages = <<p1, p2>>
  /\ status_pages = <<>>
  /\ issue_pages = <<>>
  /\ share_pages = <<>>
  /\ InitRun

NextBS ==
  \/ BSStart
  \/ BSFetchFails
  \/ \E ok \in BOOLEAN : BSSyncWrite(ok)
  \/ BSSyncSkip
  \/ BSBeginReset
  \/ \E ok \in BOOLEAN : BSResetWrite(ok)
  \/ BSResetSkip
  \/ BSCompleted
  \/ BSFinally
  \/ Tick
  \/ EditBusinessState

SpecBS == InitBS /\ [][NextBS]_vars


-----------------------------------------------------------------------------
(* automation/sync_databases.py *)

\* Python dicts keep insertion order: a dict is a sequence of <<key, value>>
\* pairs with distinct keys; d[k] = v replaces the value of a present key in
\* place and appends an absent one
DictKeys(d) == { d[i][1] : i \in DOMAIN d }

DictGet(d, key) == d[CHOOSE i \in DOMAIN d : d[i][1] = key][2]

\* a dict whose first value for a key stays
DictSet_KeepFirst(d, key, value) ==
  IF key \in DictKeys(d) THEN d ELSE Append(d, <<key, value>>)

DictSet(d, key, value) ==
  IF key \in DictKeys(d)
  THEN [ i \in DOMAIN d |-> IF d[i][1] = key THEN <<key, value>> ELSE d[i] ]
  ELSE Append(d, <<key, value>>)

\* [x for x in list if keep(x)] for a list of pairs, by the set of kept pairs
RECURSIVE FilterSeq(_, _)
FilterSeq(list, kept) ==
  IF list = <<>> THEN <<>>
  ELSE IF list[1] \in kept
       THEN <<list[1]>> \o FilterSeq(Tail(list), kept)
       ELSE FilterSeq(Tail(list), kept)

Digits == { "0", "1", "2", "3", "4", "5", "6", "7", "8", "9" }

\* str.isdigit()
IsDigit(text) == text # <<>> /\ \A i \in DOMAIN text : text[i] \in Digits

\* the first item of a rollup array that is a non-empty title, or None
RECURSIVE FirstTitleItem(_)
FirstTitleItem(array) ==
  IF array = <<>> THEN None
  ELSE IF array[1].type = "title" /\ array[1].title # <<>>
       THEN Some(array[1])
       ELSE FirstTitleItem(Tail(array))

\* a lookup that returns the 'No' title also when it is a row number
GetCompanyName_KeepsDigits(properties) ==
  IF /\ "KigyoMei" \in DOMAIN properties
     /\ properties["KigyoMei"].type = "title"
     /\ properties["KigyoMei"].title # <<>>
  THEN Some(PlainText(properties["KigyoMei"].title))
  ELSE IF /\ "Name" \in DOMAIN properties
          /\ properties["Name"].type = "rollup"
          /\ FirstTitleItem(properties["Name"].rollup.array) # None
       THEN Some(PlainText(FirstTitleItem(properties["Name"].rollup.array)[1].title))
       ELSE IF /\ "No" \in DOMAIN properties
               /\ properties["No"].type = "title"
               /\ properties["No"].title # <<>>
            THEN Some(PlainText(properties["No"].title))
            ELSE None

\* get_company_name(page), on the page's properties
GetCompanyName(properties) ==
  IF /\ "KigyoMei" \in DOMAIN properties
     /\ properties["KigyoMei"].type = "title"
     /\ properties["KigyoMei"].title # <<>>
  THEN Some(PlainText(properties["KigyoMei"].title))
  ELSE IF /\ "Name" \in DOMAIN properties
          /\ properties["Name"].type = "rollup"
          /\ FirstTitleItem(properties["Name"].rollup.array) # None
       THEN Some(PlainText(FirstTitleItem(properties["Name"].rollup.array)[1].title))
       ELSE IF /\ "No" \in DOMAIN properties
               /\ properties["No"].type = "title"
               /\ properties["No"].title # <<>>
               /\ ~IsDigit(PlainText(properties["No"].title))
            THEN Some(PlainText(properties["No"].title))
            ELSE None

\* a test that knows only the select type
IsActiveFlag_SelectOnly(properties) ==
  /\ "Active_Flag" \in DOMAIN properties
  /\ properties["Active_Flag"].type = "select"
  /\ properties["Active_Flag"].value # None
  /\ properties["Active_Flag"].value[1] = "Active"

\* is_active_flag(properties)
IsActiveFlag(properties) ==
  /\ "Active_Flag" \in DOMAIN properties
  /\ properties["Active_Flag"].type \in { "select", "status" }
  /\ properties["Active_Flag"].value # None
  /\ properties["Active_Flag"].value[1] = "Active"

\* page["properties"] of a page of the SU Long List, as a query returns it
SUProperties(page) ==
  [ name \in { "KigyoMei" } \cup
             (IF page.Active_Flag.type = "absent" THEN {} ELSE { "Active_Flag" }) |->
      IF name = "KigyoMei" THEN [ type |-> "title", title |-> page.title ]
      ELSE page.Active_Flag ]

\* the 'Name' rollup of a Status Report page: the title of each page its
\* 'reference' relation links to
RECURSIVE RollupOfTitles(_, _)
RollupOfTitles(reference, pages) ==
  IF reference = <<>> THEN <<>>
  ELSE (IF \E k \in DOMAIN pages : pages[k].id = reference[1]
        THEN << [ type |-> "title", title |-> PageById(pages, reference[1]).title ] >>
        ELSE <<>>)
       \o RollupOfTitles(Tail(reference), pages)

\* a query that returns the 'Name' rollup empty
StatusProperties_NoRollup(page, pages) ==
  [ Company_Name |-> [ type |-> "title", title |-> page.title ],
    reference |-> [ type |-> "relation", relation |-> page.reference ],
    Name |-> [ type |-> "rollup", rollup |-> [ type |-> "array", array |-> <<>> ] ] ]

\* page["properties"] of a page of the Status Report, as a query returns it
StatusProperties(page, pages) ==
  [ Company_Name |-> [ type |-> "title", title |-> page.title ],
    reference |-> [ type |-> "relation", relation |-> page.reference ],
    Name |-> [ type |-> "rollup",
               rollup |-> [ type |-> "array",
                            array |-> RollupOfTitles(page.reference, pages) ] ] ]

\* get_active_companies: name -> page id of the active, named pages
RECURSIVE SDGetActiveCompanies(_, _)
SDGetActiveCompanies(pages, active_companies) ==
  IF pages = <<>> THEN active_companies
  ELSE LET properties == SUProperties(pages[1])
           company_name == GetCompanyName(properties)
       IN SDGetActiveCompanies(
            Tail(pages),
            IF IsActiveFlag(properties) /\ company_name # None /\ company_name[1] # <<>>
            THEN DictSet(active_companies, company_name[1], pages[1].id)
            ELSE active_companies)

\* get_status_report_companies: name -> page id of the named pages
RECURSIVE GetStatusReportCompanies(_, _, _)
GetStatusReportCompanies(pages, sources, status_companies) ==
  IF pages = <<>> THEN status_companies
  ELSE LET company_name == GetCompanyName(StatusProperties(pages[1], sources))
       IN GetStatusReportCompanies(
            Tail(pages), sources,
            IF company_name # None /\ company_name[1] # <<>>
            THEN DictSet(status_companies, company_name[1], pages[1].id)
            ELSE status_companies)

\* a comparison that forgets the Status Report
MissingCompanies_All(active_companies, status_companies) ==
  active_companies

\* main: missing_companies
MissingCompanies(active_companies, status_companies) ==
  FilterSeq(active_companies,
            { pair \in { active_companies[i] : i \in DOMAIN active_companies } :
                pair[1] \notin DictKeys(status_companies) })

\* a create that names the company and leaves 'reference' empty
NewStatusProperties_NoRelation(company_name, su_long_list_page_id) ==
  [ title |-> << Fragment(company_name, FALSE, "default") >>,
    reference |-> <<>> ]

\* add_company_to_status_report: the properties of pages.create
NewStatusProperties(company_name, su_long_list_page_id) ==
  [ title |-> << Fragment(company_name, FALSE, "default") >>,
    reference |-> << su_long_list_page_id >> ]

\* the Status Report has no other stored property the model reads
NoDefaults == [ f \in {} |-> None ]

\* the store's pages.create: a new page with a fresh id at the end; the
\* properties the call does not name are empty (defaults)
CreatePage(pages, prefix, properties, defaults) ==
  Append(pages,
         [ f \in { "id" } \cup DOMAIN properties \cup DOMAIN defaults |->
             IF f = "id" THEN prefix \o ToString(Len(pages) + 1)
             ELSE IF f \in DOMAIN properties THEN properties[f]
             ELSE defaults[f] ])

\* one pages.create call as the history records it
CreateRecord(name, page_id, properties, ok) ==
  [ op |-> "create", name |-> name, page_id |-> page_id,
    properties |-> properties, ok |-> ok ]

(* The run of sync_databases.main, one step per loop iteration *)

\* main up to the comparison: both databases are read and missing_companies
\* is computed; without missing companies the try block is over
SDStart ==
  /\ pc = "idle"
  /\ LET active_companies == SDGetActiveCompanies(su_pages, <<>>)
         status_companies == GetStatusReportCompanies(status_pages, su_pages, <<>>)
         missing_companies == MissingCompanies(active_companies, status_companies)
     IN /\ recon' = [ active |-> active_companies, existing |-> status_companies,
                      linked |-> {}, missing |-> missing_companies ]
        /\ pc' = IF missing_companies = <<>> THEN "sd_finally" ELSE "sd_create"
  /\ idx' = 1
  /\ counts' = ZeroCounts
  /\ status' = Success
  /\ exit_code' = 0
  /\ logged' = None
  /\ writes' = <<>>
  /\ prev' = [prev EXCEPT !.rerun = prev.quiet, !.aborted = FALSE]
  /\ sys_stdout' = "capture"
  /\ UNCHANGED <<call, today, cfg_reset_days, su_pages, status_pages, issue_pages,
                 share_pages, companies, updated_page_ids, reset_days, edits>>

\* main: a page query raises; the except branch sets the failure outcome
SDFetchFails ==
  /\ pc = "idle"
  /\ pc' = "sd_finally"
  /\ recon' = EmptyRecon
  /\ idx' = 1
  /\ counts' = ZeroCounts
  /\ status' = Failure
  /\ exit_code' = 1
  /\ logged' = None
  /\ writes' = <<>>
  /\ prev' = [prev EXCEPT !.rerun = prev.quiet, !.aborted = TRUE]
  /\ sys_stdout' = "capture"
  /\ UNCHANGED <<call, today, cfg_reset_days, su_pages, status_pages, issue_pages,
                 share_pages, companies, updated_page_ids, reset_days, edits>>

\* a create loop that stops at the first failed create
SDCreate_AbortsOnFailure(ok) ==
  /\ pc = "sd_create"
  /\ idx <= Len(recon.missing)
  /\ LET company_name == recon.missing[idx][1]
         page_id == recon.missing[idx][2]
         properties == NewStatusProperties(company_name, page_id)
     IN /\ status_pages' = IF ok THEN CreatePage(status_pages, "s", properties, NoDefaults)
                           ELSE status_pages
        /\ writes' = Append(writes, CreateRecord(company_name, page_id, properties, ok))
  /\ counts' = IF ok THEN [counts EXCEPT !.ok = @ + 1]
               ELSE [counts EXCEPT !.error = @ + 1]
  /\ idx' = IF ok THEN idx + 1 ELSE Len(recon.missing) + 1
  /\ UNCHANGED <<sys_stdout, call, today, cfg_reset_days, su_pages, issue_pages, share_pages, pc,
                 companies, recon, updated_page_ids, reset_days, status,
                 exit_code, logged, prev, edits>>

\* main: add_company_to_status_report for the next missing company; the
\* create succeeds or raises, and the matching counter goes up
SDCreate(ok) ==
  /\ pc = "sd_create"
  /\ idx <= Len(recon.missing)
  /\ LET company_name == recon.missing[idx][1]
         page_id == recon.missing[idx][2]
         properties == NewStatusProperties(company_name, page_id)
     IN /\ status_pages' = IF ok THEN CreatePage(status_pages, "s", properties, NoDefaults)
                           ELSE status_pages
        /\ writes' = Append(writes, CreateRecord(company_name, page_id, properties, ok))
  /\ counts' = IF ok THEN [counts EXCEPT !.ok = @ + 1]
               ELSE [counts EXCEPT !.error = @ + 1]
  /\ idx' = idx + 1
  /\ UNCHANGED <<sys_stdout, call, today, cfg_reset_days, su_pages, issue_pages, share_pages, pc,
                 companies, recon, updated_page_ids, reset_days, status,
                 exit_code, logged, prev, edits>>

\* main: the process is stopped between two creates of the loop; nothing of
\* the rest of main runs, and what was created stays in the Status Report
SDKilled ==
  /\ pc = "sd_create"
  /\ idx <= Len(recon.missing)
  /\ pc' = "idle"
  /\ exit_code' = 1
  /\ prev' = PrevOfRun(writes, FALSE)
  /\ recon' = EmptyRecon
  /\ idx' = 1
  /\ counts' = ZeroCounts
  /\ writes' = <<>>
  /\ sys_stdout' = "original"
  /\ UNCHANGED <<call, today, cfg_reset_days, su_pages, status_pages, issue_pages,
                 share_pages, companies, updated_page_ids, reset_days, status,
                 logged, edits>>

\* main: the loop is over, the summary is printed and failed_count decides
\* the outcome
SDSummary ==
  /\ pc = "sd_create"
  /\ idx > Len(recon.missing)
  /\ pc' = "sd_finally"
  /\ status' = IF counts.error > 0 THEN Failure ELSE status
  /\ exit_code' = IF counts.error > 0 THEN 1 ELSE exit_code
  /\ UNCHANGED <<sys_stdout, call, today, cfg_reset_days, su_pages, status_pages, issue_pages,
                 share_pages, companies, recon, idx, updated_page_ids,
                 reset_days, counts, logged, writes, prev, edits>>

\* main: the finally block hands status to save_execution_log and exits with
\* exit_code when it is not 0
SDFinally ==
  /\ pc = "sd_finally"
  /\ pc' = "idle"
  /\ logged' = Some(status)
  /\ prev' = PrevOfRun(writes, prev.aborted)
  /\ recon' = EmptyRecon
  /\ idx' = 1
  /\ counts' = ZeroCounts
  /\ writes' = <<>>
  /\ sys_stdout' = "original"
  /\ UNCHANGED <<call, today, cfg_reset_days, su_pages, status_pages, issue_pages,
                 share_pages, companies, updated_page_ids, reset_days, status,
                 exit_code, edits>>

\* a user sets the Active Flag of a page of the SU Long List
EditActiveFlag ==
  /\ pc = "idle"
  /\ edits < MaxEdits
  /\ \E k \in DOMAIN su_pages :
     \E flag \in { SelectFlag("Active"), SelectFlag("Inactive") } :
       /\ flag # su_pages[k].Active_Flag
       /\ su_pages' = [su_pages EXCEPT ![k].Active_Flag = flag]
  /\ edits' = edits + 1
  /\ prev' = [prev EXCEPT !.quiet = FALSE]
  /\ UNCHANGED <<sys_stdout, call, today, cfg_reset_days, status_pages, issue_pages, share_pages,
                 pc, companies, recon, idx, updated_page_ids, reset_days,
                 counts, status, exit_code, logged, writes>>

(* Initial states: three pages of the SU Long List, and a Status Report that
   is empty or already holds the page of the first company *)

AbsentFlag == [type |-> "absent", value |-> None]

CompanyPages(id, flags, names) ==
  { [ id |-> id, Active_Flag |-> flag, title |-> IF name = <<>> THEN <<>> ELSE Title(name),
      Business_State |-> DefaultRichText(StateSeed), status_buffer |-> StateSeed,
      Last_State |-> <<>>, business_state_log |-> <<>>,
      business_status_update_day |-> None ] :
    flag \in flags, name \in names }

InitSD ==
  /\ today = StartDay
  /\ cfg_reset_days = None
  /\ \E p1 \in CompanyPages("p1", { SelectFlag("Active"), StatusFlag("Active"),
                                      SelectFlag("Inactive"), AbsentFlag },
                               { <<"A">>, <<>> }) :
     \E p2 \in CompanyPages("p2", { SelectFlag("Active"), SelectFlag("Inactive") },
                               { <<"A">>, <<"B">> }) :
     \E p3 \in CompanyPages("p3", { SelectFlag("Active"), StatusFlag("Active") },
                               { <<"B">>, <<"C">> }) :
       su_pages = <<p1, p2, p3>>
  /\ status_pages \in { <<>>, CreatePage(<<>>, "s", NewStatusProperties(<<"A">>, "p1"), NoDefaults) }
  /\ issue_pages = <<>>
  /\ share_pages = <<>>
  /\ companies = <<>>
  /\ InitRun

NextSD ==
  \/ SDStart
  \/ SDFetchFails
  \/ \E ok \in BOOLEAN : SDCreate(ok)
  \/ SDSummary
  \/ SDFinally
  \/ EditActiveFlag

SpecSD == InitSD /\ [][NextSD]_vars

-----------------------------------------------------------------------------
(* automation/sync_oi_issue_list.py *)

IsSpace(c) == c \in { " ", "\n", "\t" }

\* str.lstrip() / str.strip()
RECURSIVE LStrip(_)
LStrip(text) ==
  IF text # <<>> /\ IsSpace(text[1]) THEN LStrip(Tail(text)) ELSE text

RECURSIVE Strip(_)
Strip(text) ==
  IF text # <<>> /\ IsSpace(text[Len(text)])
  THEN Strip(SubSeq(text, 1, Len(text) - 1))
  ELSE LStrip(text)

\* ', '.join(values)
RECURSIVE JoinComma(_)
JoinComma(values) ==
  IF values = <<>> THEN <<>>
  ELSE IF Len(values) = 1 THEN values[1]
       ELSE values[1] \o <<",", " ">> \o JoinComma(Tail(values))

\* text.split(',')
RECURSIVE SplitComma(_, _)
SplitComma(text, current) ==
  IF text = <<>> THEN << current >>
  ELSE IF text[1] = "," THEN << current >> \o SplitComma(Tail(text), <<>>)
       ELSE SplitComma(Tail(text), Append(current, text[1]))

\* str(number) for a non-negative whole number
RECURSIVE NumberToText(_)
NumberToText(number) ==
  IF number < 10 THEN << ToString(number) >>
  ELSE NumberToText(number \div 10) \o << ToString(number % 10) >>

DigitValue(c) == CHOOSE v \in 0..9 : ToString(v) = c

\* float(text) for a text of digits
RECURSIVE TextToNumber(_, _)
TextToNumber(text, acc) ==
  IF text = <<>> THEN acc
  ELSE TextToNumber(Tail(text), 10 * acc + DigitValue(text[1]))

\* float(new_value) raises ValueError unless the text, stripped, is a numeral
ParsesAsNumber(text) == IsDigit(Strip(text))

\* extract_title(page, title_property)
ExtractTitle(page) == Strip(PlainText(page.title))

\* _extract_text_from_rich_text(items)
ExtractTextFromRichText(items) == Strip(PlainText(items))

\* the text of an optional select / status option: its name, '' when unset
OptionName(option) == IF option = None THEN <<>> ELSE option[1]

\* _rollup_item_to_text(item)
RollupItemToText(item) ==
  IF item.type \in { "title", "rich_text" } THEN ExtractTextFromRichText(item.value)
  ELSE IF item.type \in { "select", "status" } THEN OptionName(item.value)
  ELSE IF item.type = "number"
       THEN (IF item.value = None THEN <<>> ELSE NumberToText(item.value[1]))
  ELSE <<>>

\* the non-empty texts of the items of a rollup array
RECURSIVE RollupTexts(_)
RollupTexts(array) ==
  IF array = <<>> THEN <<>>
  ELSE (IF RollupItemToText(array[1]) # <<>>
        THEN << RollupItemToText(array[1]) >> ELSE <<>>)
       \o RollupTexts(Tail(array))

\* the non-empty names of a multi_select
RECURSIVE NonEmpty(_)
NonEmpty(names) ==
  IF names = <<>> THEN <<>>
  ELSE (IF names[1] # <<>> THEN << names[1] >> ELSE <<>>) \o NonEmpty(Tail(names))

\* extract_plain_text_from_property(prop_data); a property is
\* [type, value], value being the payload stored under the type's key
ExtractPlainTextFromProperty(prop_data) ==
  IF prop_data = None THEN <<>>
  ELSE LET prop == prop_data[1]
       IN IF prop.type \in { "title", "rich_text" }
          THEN ExtractTextFromRichText(prop.value)
          ELSE IF prop.type \in { "select", "status" } THEN OptionName(prop.value)
          ELSE IF prop.type = "number"
               THEN (IF prop.value = None THEN <<>> ELSE NumberToText(prop.value[1]))
          ELSE IF prop.type = "multi_select" THEN JoinComma(NonEmpty(prop.value))
          ELSE IF prop.type = "rollup" THEN JoinComma(RollupTexts(prop.value))
          ELSE <<>>

\* the stripped, non-empty parts of a comma-separated text
RECURSIVE StripAll(_)
StripAll(parts) ==
  IF parts = <<>> THEN <<>>
  ELSE (IF Strip(parts[1]) # <<>> THEN << Strip(parts[1]) >> ELSE <<>>)
       \o StripAll(Tail(parts))

\* a conversion that writes 0 for a text that is no numeral
BuildPropertyUpdate_ZeroForBadNumber(prop, new_value) ==
  IF new_value = <<>> THEN None
  ELSE IF prop.type \in { "rich_text", "title" }
       THEN Some([ type |-> prop.type, value |-> DefaultRichText(new_value) ])
  ELSE IF prop.type \in { "select", "status" }
       THEN Some([ type |-> prop.type, value |-> Some(new_value) ])
  ELSE IF prop.type = "number"
       THEN (IF ParsesAsNumber(new_value)
             THEN Some([ type |-> "number",
                         value |-> Some(TextToNumber(Strip(new_value), 0)) ])
             ELSE Some([ type |-> "number", value |-> Some(0) ]))
  ELSE IF prop.type = "multi_select"
       THEN (IF StripAll(SplitComma(new_value, <<>>)) = <<>> THEN None
             ELSE Some([ type |-> "multi_select",
                         value |-> StripAll(SplitComma(new_value, <<>>)) ]))
  ELSE None

\* build_property_update(prop_data, new_value): the payload, as the property
\* value the store holds after the update, or None
BuildPropertyUpdate(prop, new_value) ==
  IF new_value = <<>> THEN None
  ELSE IF prop.type \in { "rich_text", "title" }
       THEN Some([ type |-> prop.type, value |-> DefaultRichText(new_value) ])
  ELSE IF prop.type \in { "select", "status" }
       THEN Some([ type |-> prop.type, value |-> Some(new_value) ])
  ELSE IF prop.type = "number"
       THEN (IF ParsesAsNumber(new_value)
             THEN Some([ type |-> "number",
                         value |-> Some(TextToNumber(Strip(new_value), 0)) ])
             ELSE None)
  ELSE IF prop.type = "multi_select"
       THEN (IF StripAll(SplitComma(new_value, <<>>)) = <<>> THEN None
             ELSE Some([ type |-> "multi_select",
                         value |-> StripAll(SplitComma(new_value, <<>>)) ]))
  ELSE None

\* a comparison that never finds the value in place
PropertyMatches_Never(prop, new_value) == FALSE

\* property_matches(prop_data, new_value)
PropertyMatches(prop, new_value) ==
  ExtractPlainTextFromProperty(Some(prop)) = new_value

\* copy_reference_properties: reference_pairs
ReferencePairs ==
  << << "affinity_ref", "affinity" >>, << "difficulty_ref", "difficulty" >> >>

\* copy_reference_properties: update_payload of one page, from its properties
\* (a function from the names of the properties the page has)
RECURSIVE UpdatePayload(_, _, _)
UpdatePayload(properties, pairs, update_payload) ==
  IF pairs = <<>> THEN update_payload
  ELSE LET source_field == pairs[1][1]
           target_field == pairs[1][2]
           skip == UpdatePayload(properties, Tail(pairs), update_payload)
       IN IF source_field \notin DOMAIN properties
             \/ target_field \notin DOMAIN properties
          THEN skip
          ELSE LET new_value ==
                     ExtractPlainTextFromProperty(Some(properties[source_field]))
                   update_value ==
                     BuildPropertyUpdate(properties[target_field], new_value)
               IN IF new_value = <<>>
                     \/ PropertyMatches(properties[target_field], new_value)
                     \/ update_value = None
                  THEN skip
                  ELSE UpdatePayload(
                         properties, Tail(pairs),
                         [ f \in DOMAIN update_payload \cup { target_field } |->
                             IF f = target_field THEN update_value[1]
                             ELSE update_payload[f] ])

\* the empty dict
EmptyPayload == [ f \in {} |-> None ]

\* the display columns of OI List Share and their types
ShareDefaults ==
  [ affinity |-> [ type |-> "select", value |-> None ],
    difficulty |-> [ type |-> "number", value |-> None ] ]

\* the items of a *_ref rollup of a share page: the named property of each
\* issue its 'reference' relation links to
RECURSIVE RollupOfField(_, _, _)
RollupOfField(reference, issues, field) ==
  IF reference = <<>> THEN <<>>
  ELSE (IF \E k \in DOMAIN issues : issues[k].id = reference[1]
        THEN << PageById(issues, reference[1])[field] >>
        ELSE <<>>)
       \o RollupOfField(Tail(reference), issues, field)

\* page['properties'] of a page of OI List Share, as a query returns it
ShareProperties(page, issues) ==
  [ title |-> [ type |-> "title", value |-> page.title ],
    reference |-> [ type |-> "relation", value |-> page.reference ],
    affinity_ref |-> [ type |-> "rollup",
                       value |-> RollupOfField(page.reference, issues, "affinity") ],
    affinity |-> page.affinity,
    difficulty_ref |-> [ type |-> "rollup",
                         value |-> RollupOfField(page.reference, issues, "difficulty") ],
    difficulty |-> page.difficulty ]

\* the Active Flag test of get_active_issues: a select named 'Active'
OIIsActive(page) ==
  /\ page.Active_Flag.type = "select"
  /\ page.Active_Flag.value # None
  /\ page.Active_Flag.value[1] = "Active"

\* get_active_issues: title -> page id of the active, titled issues
RECURSIVE GetActiveIssues(_, _)
GetActiveIssues(pages, active_pages) ==
  IF pages = <<>> THEN active_pages
  ELSE GetActiveIssues(
         Tail(pages),
         IF OIIsActive(pages[1]) /\ ExtractTitle(pages[1]) # <<>>
         THEN DictSet(active_pages, ExtractTitle(pages[1]), pages[1].id)
         ELSE active_pages)

\* get_share_entries: entries, title -> page id
RECURSIVE ShareEntries(_, _)
ShareEntries(pages, entries) ==
  IF pages = <<>> THEN entries
  ELSE ShareEntries(
         Tail(pages),
         IF ExtractTitle(pages[1]) # <<>>
         THEN DictSet(entries, ExtractTitle(pages[1]), pages[1].id)
         ELSE entries)

\* get_share_entries: linked_issue_ids
LinkedIssueIds(pages) ==
  UNION { { pages[k].reference[i] : i \in DOMAIN pages[k].reference } :
          k \in DOMAIN pages }

\* a comparison by title alone
MissingTitles_TitleOnly(active_issues, share_entries, linked_issue_ids) ==
  FilterSeq(active_issues,
            { pair \in { active_issues[i] : i \in DOMAIN active_issues } :
                pair[1] \notin DictKeys(share_entries) })

\* main: missing_titles
MissingTitles(active_issues, share_entries, linked_issue_ids) ==
  FilterSeq(active_issues,
            { pair \in { active_issues[i] : i \in DOMAIN active_issues } :
                /\ pair[1] \notin DictKeys(share_entries)
                /\ pair[2] \notin linked_issue_ids })

\* a create that sends neither the title nor the relation
NewShareProperties_Blank(issue_title, issue_page_id) ==
  [ title |-> <<>>, reference |-> <<>> ]

\* create_share_entry: the properties of pages.create
NewShareProperties(issue_title, issue_page_id) ==
  [ title |-> << Fragment(issue_title, FALSE, "default") >>,
    reference |-> << issue_page_id >> ]

\* copy_reference_properties: all_pages, each page with its properties
MirrorSnapshot(pages, issues) ==
  [ k \in DOMAIN pages |->
      [ id |-> pages[k].id, properties |-> ShareProperties(pages[k], issues) ] ]

\* one pages.update call of copy_reference_properties as the history records it
MirrorRecord(page_id, properties, ok) ==
  [ op |-> "mirror", page_id |-> page_id, properties |-> properties, ok |-> ok ]

(* The run of sync_oi_issue_list.main, one step per loop iteration *)

\* main up to the comparison: the title properties are looked up, both
\* databases are read and missing_titles is computed
OIStart ==
  /\ pc = "idle"
  /\ LET active_issues == GetActiveIssues(issue_pages, <<>>)
         share_entries == ShareEntries(share_pages, <<>>)
         linked_issue_ids == LinkedIssueIds(share_pages)
     IN recon' = [ active |-> active_issues, existing |-> share_entries,
                   linked |-> linked_issue_ids,
                   missing |-> MissingTitles(active_issues, share_entries,
                                             linked_issue_ids) ]
  /\ pc' = "oi_create"
  /\ companies' = <<>>
  /\ idx' = 1
  /\ counts' = ZeroCounts
  /\ status' = Success
  /\ exit_code' = 0
  /\ logged' = None
  /\ writes' = <<>>
  /\ prev' = [prev EXCEPT !.rerun = prev.quiet, !.aborted = FALSE]
  /\ sys_stdout' = "capture"
  /\ UNCHANGED <<call, today, cfg_reset_days, su_pages, status_pages, issue_pages,
                 share_pages, updated_page_ids, reset_days, edits>>

\* main: get_title_property_name raises; the call is made before the try
\* block, so the exception leaves main: no log is saved and the process dies
OISchemaFails ==
  /\ pc = "idle"
  /\ status' = Success
  /\ exit_code' = 1
  /\ logged' = None
  /\ prev' = [PrevOfRun(<<>>, TRUE) EXCEPT !.quiet = FALSE, !.aborted = TRUE]
  /\ sys_stdout' = "capture"
  /\ UNCHANGED <<call, today, cfg_reset_days, su_pages, status_pages, issue_pages,
                 share_pages, pc, companies, recon, idx, updated_page_ids,
                 reset_days, counts, writes, edits>>

\* main: a page query of get_active_issues or get_share_entries raises; the
\* except branch sets the failure outcome
OIFetchFails ==
  /\ pc = "idle"
  /\ pc' = "oi_finally"
  /\ recon' = EmptyRecon
  /\ companies' = <<>>
  /\ idx' = 1
  /\ counts' = ZeroCounts
  /\ status' = Failure
  /\ exit_code' = 1
  /\ logged' = None
  /\ writes' = <<>>
  /\ prev' = [prev EXCEPT !.rerun = prev.quiet, !.aborted = TRUE]
  /\ sys_stdout' = "capture"
  /\ UNCHANGED <<call, today, cfg_reset_days, su_pages, status_pages, issue_pages,
                 share_pages, updated_page_ids, reset_days, edits>>

\* main: create_share_entry for the next missing issue; the create succeeds
\* or raises, and created or failed goes up
OICreate(ok) ==
  /\ pc = "oi_create"
  /\ idx <= Len(recon.missing)
  /\ LET issue_title == recon.missing[idx][1]
         issue_page_id == recon.missing[idx][2]
         properties == NewShareProperties(issue_title, issue_page_id)
     IN /\ share_pages' = IF ok
                          THEN CreatePage(share_pages, "e", properties, ShareDefaults)
                          ELSE share_pages
        /\ writes' = Append(writes, CreateRecord(issue_title, issue_page_id,
                                                 properties, ok))
  /\ counts' = IF ok THEN [counts EXCEPT !.ok = @ + 1]
               ELSE [counts EXCEPT !.error = @ + 1]
  /\ idx' = idx + 1
  /\ UNCHANGED <<sys_stdout, call, today, cfg_reset_days, su_pages, status_pages, issue_pages, pc,
                 companies, recon, updated_page_ids, reset_days, status,
                 exit_code, logged, prev, edits>>

\* main: the process is stopped between two creates of the loop; nothing of
\* the rest of main runs, and what was created stays in OI List Share
OIKilled ==
  /\ pc = "oi_create"
  /\ idx <= Len(recon.missing)
  /\ pc' = "idle"
  /\ exit_code' = 1
  /\ prev' = PrevOfRun(writes, FALSE)
  /\ recon' = EmptyRecon
  /\ idx' = 1
  /\ counts' = ZeroCounts
  /\ writes' = <<>>
  /\ sys_stdout' = "original"
  /\ UNCHANGED <<call, today, cfg_reset_days, su_pages, status_pages, issue_pages,
                 share_pages, companies, updated_page_ids, reset_days, status,
                 logged, edits>>

\* a summary that leaves the outcome as it is when creates failed
OISummary_IgnoresFailures ==
  /\ pc = "oi_create"
  /\ idx > Len(recon.missing)
  /\ pc' = "oi_mirror"
  /\ companies' = MirrorSnapshot(share_pages, issue_pages)
  /\ idx' = 1
  /\ UNCHANGED <<sys_stdout, call, today, cfg_reset_days, su_pages, status_pages, issue_pages,
                 share_pages, recon, updated_page_ids, reset_days, counts,
                 status, exit_code, logged, writes, prev, edits>>

\* main: the create loop is over (or there was nothing to create), the summary
\* is printed, failed decides the outcome, and copy_reference_properties
\* reads the share database again
OISummary ==
  /\ pc = "oi_create"
  /\ idx > Len(recon.missing)
  /\ pc' = "oi_mirror"
  /\ status' = IF counts.error > 0 THEN Failure ELSE status
  /\ exit_code' = IF counts.error > 0 THEN 1 ELSE exit_code
  /\ companies' = MirrorSnapshot(share_pages, issue_pages)
  /\ idx' = 1
  /\ UNCHANGED <<sys_stdout, call, today, cfg_reset_days, su_pages, status_pages, issue_pages,
                 share_pages, recon, updated_page_ids, reset_days, counts,
                 logged, writes, prev, edits>>

\* main: the create loop is over and the summary is printed, but the page
\* query of copy_reference_properties raises; the except branch sets the
\* failure outcome
OIMirrorFetchFails ==
  /\ pc = "oi_create"
  /\ idx > Len(recon.missing)
  /\ pc' = "oi_finally"
  /\ status' = Failure
  /\ exit_code' = 1
  /\ companies' = <<>>
  /\ idx' = 1
  /\ prev' = [prev EXCEPT !.aborted = TRUE]
  /\ UNCHANGED <<sys_stdout, call, today, cfg_reset_days, su_pages, status_pages, issue_pages,
                 share_pages, recon, updated_page_ids, reset_days, counts,
                 logged, writes, edits>>

\* copy_reference_properties, one page with a non-empty update_payload: the
\* update succeeds, or raises and the exception reaches main's except branch
OIMirrorUpdate(ok) ==
  /\ pc = "oi_mirror"
  /\ idx <= Len(companies)
  /\ LET page == companies[idx]
         update_payload == UpdatePayload(page.properties, ReferencePairs, EmptyPayload)
     IN /\ update_payload # EmptyPayload
        /\ share_pages' = IF ok THEN UpdateStore(share_pages, page.id, update_payload)
                          ELSE share_pages
        /\ writes' = Append(writes, MirrorRecord(page.id, update_payload, ok))
  /\ counts' = IF ok THEN [counts EXCEPT !.updated = @ + 1] ELSE counts
  /\ idx' = IF ok THEN idx + 1 ELSE idx
  /\ pc' = IF ok THEN pc ELSE "oi_finally"
  /\ status' = IF ok THEN status ELSE Failure
  /\ exit_code' = IF ok THEN exit_code ELSE 1
  /\ UNCHANGED <<sys_stdout, call, today, cfg_reset_days, su_pages, status_pages, issue_pages,
                 companies, recon, updated_page_ids, reset_days, logged, prev,
                 edits>>

\* copy_reference_properties, one page with nothing to update
OIMirrorSkip ==
  /\ pc = "oi_mirror"
  /\ idx <= Len(companies)
  /\ UpdatePayload(companies[idx].properties, ReferencePairs, EmptyPayload)
       = EmptyPayload
  /\ idx' = idx + 1
  /\ UNCHANGED <<sys_stdout, call, today, cfg_reset_days, su_pages, status_pages, issue_pages,
                 share_pages, pc, companies, recon, updated_page_ids,
                 reset_days, counts, status, exit_code, logged, writes, prev,
                 edits>>

\* copy_reference_properties returned
OIMirrorDone ==
  /\ pc = "oi_mirror"
  /\ idx > Len(companies)
  /\ pc' = "oi_finally"
  /\ UNCHANGED <<sys_stdout, call, today, cfg_reset_days, su_pages, status_pages, issue_pages,
                 share_pages, companies, recon, idx, updated_page_ids,
                 reset_days, counts, status, exit_code, logged, writes, prev,
                 edits>>

\* main: the finally block hands status to save_execution_log and exits with
\* exit_code when it is not 0
OIFinally ==
  /\ pc = "oi_finally"
  /\ pc' = "idle"
  /\ logged' = Some(status)
  /\ prev' = PrevOfRun(writes, prev.aborted)
  /\ recon' = EmptyRecon
  /\ companies' = <<>>
  /\ idx' = 1
  /\ counts' = ZeroCounts
  /\ writes' = <<>>
  /\ sys_stdout' = "original"
  /\ UNCHANGED <<call, today, cfg_reset_days, su_pages, status_pages, issue_pages,
                 share_pages, updated_page_ids, reset_days, status, exit_code,
                 edits>>

\* a user sets the Active Flag of an issue
EditIssueFlag ==
  /\ pc = "idle"
  /\ edits < MaxEdits
  /\ \E k \in DOMAIN issue_pages :
     \E flag \in { SelectFlag("Active"), SelectFlag("Inactive") } :
       /\ flag # issue_pages[k].Active_Flag
       /\ issue_pages' = [issue_pages EXCEPT ![k].Active_Flag = flag]
  /\ edits' = edits + 1
  /\ prev' = [prev EXCEPT !.quiet = FALSE]
  /\ UNCHANGED <<sys_stdout, call, today, cfg_reset_days, su_pages, status_pages, share_pages, pc,
                 companies, recon, idx, updated_page_ids, reset_days, counts,
                 status, exit_code, logged, writes>>

(* Initial states: two issues, and a share database that is empty, holds an
   entry titled like the first issue, or holds an entry linked to it *)

SelectValue(name) == [ type |-> "select", value |-> name ]

IssuePages(id, flags, titles, affinities, difficulties) ==
  { [ id |-> id, Active_Flag |-> flag,
      title |-> IF title = <<>> THEN <<>> ELSE Title(title),
      affinity |-> SelectValue(affinity), difficulty |-> SelectValue(difficulty) ] :
    flag \in flags, title \in titles, affinity \in affinities,
    difficulty \in difficulties }

InitSharePages ==
  { <<>>,
    CreatePage(<<>>, "e", [ title |-> Title(<<"A">>), reference |-> <<>> ],
               ShareDefaults),
    CreatePage(<<>>, "e",
               [ title |-> Title(<<"Z">>), reference |-> << "i1" >>,
                 affinity |-> SelectValue(Some(<<"H">>)) ],
               ShareDefaults) }

InitOI ==
  /\ today = StartDay
  /\ cfg_reset_days = None
  /\ su_pages = <<>>
  /\ status_pages = <<>>
  /\ \E i1 \in IssuePages("i1", { SelectFlag("Active"), StatusFlag("Active"),
                                  SelectFlag("Inactive") },
                            { <<"A">>, <<" ", "A">>, <<>> },
                            { None, Some(<<"H">>) }, { Some(<<"3">>) }) :
     \E i2 \in IssuePages("i2", { SelectFlag("Active") }, { <<"A">>, <<"B">> },
                            { Some(<<"H">>) },
                            { None, Some(<<"3">>), Some(<<"x">>) }) :
       issue_pages = <<i1, i2>>
  /\ share_pages \in InitSharePages
  /\ companies = <<>>
  /\ InitRun

NextOI ==
  \/ OIStart
  \/ OISchemaFails
  \/ OIFetchFails
  \/ \E ok \in BOOLEAN : OICreate(ok)
  \/ OISummary
  \/ OIMirrorFetchFails
  \/ \E ok \in BOOLEAN : OIMirrorUpdate(ok)
  \/ OIMirrorSkip
  \/ OIMirrorDone
  \/ OIFinally
  \/ EditIssueFlag

SpecOI == InitOI /\ [][NextOI]_vars


-----------------------------------------------------------------------------
(* Properties of update_business_state.main *)

\* the update calls of the current run, by kind
SyncWrites == { k \in DOMAIN writes : writes[k].op = "sync" }
ResetWrites == { k \in DOMAIN writes : writes[k].op = "reset" }
WritesOf(op, page_id) ==
  { k \in DOMAIN writes : writes[k].op = op /\ writes[k].page_id = page_id }

\* the sync pass of the current run is over / both passes are over
SyncPassDone == pc = "bs_reset" \/ (pc = "bs_finally" /\ status = Success)
ResetPassDone == pc = "bs_finally" /\ status = Success

Converged(page) == PlainText(page.Business_State) = page.status_buffer

\* C1: every company of the snapshot whose Business State differs from its
\* status_buffer gets exactly one sync update; the update names exactly the five
\* fields, with status_buffer := old Business State, Last State := old
\* status_buffer, business_status_update_day := today and Business State := the
\* same text bold+orange; after a successful one the page is Converged,
\* Highlighted and its Last State is the pre-sync status_buffer.
C1_SyncTransition ==
  /\ \A k \in SyncWrites :
       LET w == writes[k]
           old == w.before
           page == PageById(su_pages, w.page_id)
       IN /\ DOMAIN w.properties =
               { "Business_State", "Last_State", "status_buffer",
                 "business_status_update_day", "business_state_log" }
          /\ w.properties.status_buffer = PlainText(old.Business_State)
          /\ w.properties.Last_State = old.status_buffer
          /\ w.properties.business_status_update_day = Some(today)
          /\ w.properties.Business_State =
               << Fragment(PlainText(old.Business_State), TRUE, "orange") >>
          /\ ~Converged(old)
          /\ w.ok =>
               /\ Converged(page)
               /\ page.status_buffer = PlainText(old.Business_State)
               /\ page.Last_State = old.status_buffer
               /\ page.business_status_update_day = Some(today)
               /\ BusinessStateStyled(page.Business_State)
  /\ SyncPassDone =>
       \A j \in DOMAIN companies :
         NeedsSync(companies[j]) =>
           Cardinality(WritesOf("sync", companies[j].page_id)) = 1

\* C1 witness: the spec's example: Business State "Funded", status_buffer "Seed",
\* empty log; the sync succeeded and the page now holds the synced values
C1_Witness ==
  \E k \in SyncWrites :
    LET w == writes[k]
        page == PageById(su_pages, w.page_id)
    IN /\ w.ok
       /\ PlainText(w.before.Business_State) = StateFunded
       /\ w.before.status_buffer = StateSeed
       /\ w.before.business_state_log = <<>>
       /\ page.status_buffer = StateFunded
       /\ page.Last_State = StateSeed
       /\ page.business_state_log = <<"->", "F", "(", ToString(today), ")">>
       /\ BusinessStateStyled(page.Business_State)

\* C2: business_state_log only grows: in every step, each page's log either
\* stays as it is or becomes the old log followed by exactly one entry
\* "->{Business State}({MM/DD})", on a new line unless the log was empty; so
\* the old log is always a prefix of the new one.
C2_LogAppendOnly ==
  [][ \A k \in DOMAIN su_pages :
        LET old == su_pages[k].business_state_log
            new == su_pages'[k].business_state_log
            entry == <<"->">> \o PlainText(su_pages[k].Business_State)
                       \o <<"(", ToString(today % DaysPerYear), ")">>
        IN /\ IsPrefix(old, new)
           /\ \/ new = old
              \/ old = <<>> /\ new = entry
              \/ old # <<>> /\ new = old \o <<"\n">> \o entry ]_vars

\* C2 witness: a sync appended an entry to a log that already had one
C2_Witness ==
  \E k \in SyncWrites :
    LET w == writes[k]
        page == PageById(su_pages, w.page_id)
    IN /\ w.ok
       /\ w.before.business_state_log # <<>>
       /\ Len(page.business_state_log) > Len(w.before.business_state_log)
       /\ IsPrefix(w.before.business_state_log, page.business_state_log)

\* C3: no sync update is issued for a company whose snapshot has Business State
\* equal to status_buffer; and a run that starts right after a run whose sync
\* updates all succeeded, with no change in between, issues no sync update.
C3_NoOpSync ==
  /\ \A j \in DOMAIN companies :
       ~NeedsSync(companies[j]) => WritesOf("sync", companies[j].page_id) = {}
  /\ \A k \in SyncWrites :
       \E j \in DOMAIN companies :
         /\ companies[j].page_id = writes[k].page_id
         /\ companies[j].properties.Business_State
              # companies[j].properties.status_buffer
  /\ (prev.rerun /\ prev.all_ok["sync"]) => SyncWrites = {}

\* C3 witness: the sync pass of a run is over, the run before it synced at
\* least one page, all its sync updates succeeded and nothing changed since
C3_Witness ==
  /\ SyncPassDone
  /\ prev.rerun /\ prev.all_ok["sync"] /\ prev.n["sync"] > 0
  /\ companies # <<>>

\* C4: within one run every sync update precedes every style reset, the skip
\* set of the reset pass is the set of pages whose sync succeeded, and no page
\* of that set gets a style reset.
C4_ExpiryExemption ==
  /\ \A j \in SyncWrites : \A k \in ResetWrites : j < k
  /\ pc = "bs_sync" => ResetWrites = {}
  /\ SyncPassDone =>
       updated_page_ids = { writes[k].page_id : k \in { j \in SyncWrites : writes[j].ok } }
  /\ \A k \in ResetWrites :
       /\ writes[k].page_id \notin updated_page_ids
       /\ \A j \in SyncWrites : writes[j].page_id = writes[k].page_id => ~writes[j].ok

\* C4 witness: both passes are over, and a page that was synced in this run
\* was styled and old enough in the snapshot, yet got no style reset
C4_Witness ==
  /\ ResetPassDone
  /\ \E j \in DOMAIN companies :
       LET properties == companies[j].properties
       IN /\ companies[j].page_id \in updated_page_ids
          /\ properties.business_state_styled
          /\ properties.business_status_update_day # None
          /\ properties.business_status_update_day[1] <= today - reset_days
          /\ WritesOf("reset", companies[j].page_id) = {}

C6_ResetFrame ==
  \A k \in ResetWrites :
    LET w == writes[k]
        old == w.before
        page == PageById(su_pages, w.page_id)
    IN /\ DOMAIN w.properties = { "Business_State" }
       /\ w.properties.Business_State =
            << Fragment(PlainText(old.Business_State), FALSE, "default") >>
       /\ BusinessStateStyled(old.Business_State)
       /\ w.ok =>
            /\ ~BusinessStateStyled(page.Business_State)
            /\ PlainText(page.Business_State) = PlainText(old.Business_State)
            /\ page.status_buffer = old.status_buffer
            /\ page.Last_State = old.Last_State
            /\ page.business_state_log = old.business_state_log
            /\ page.business_status_update_day = old.business_status_update_day
            /\ Converged(page) <=> Converged(old)
       /\ ~w.ok => page = old

\* C6 witness: a Diverged, Highlighted page (its sync failed in this run) was
\* reset and is now Plain and still Diverged
C6_Witness ==
  \E k \in ResetWrites :
    LET page == PageById(su_pages, writes[k].page_id)
    IN /\ writes[k].ok
       /\ ~Converged(writes[k].before)
       /\ ~Converged(page)
       /\ ~BusinessStateStyled(page.Business_State)

-----------------------------------------------------------------------------
(* Both reconciliation scripts over the same stores *)

InitRecon == InitSD \/ InitOI

NextRecon == NextSD \/ NextOI

SpecRecon == InitRecon /\ [][NextRecon]_vars

-----------------------------------------------------------------------------
(* Properties of sync_databases.main and sync_oi_issue_list.main *)

\* the pages.create calls of the run so far, in call order
Creates == SelectSeq(writes, LAMBDA w : w.op = "create")

\* the run got past both reads and is in or after its create loop
SDPastFetch == pc = "sd_create" \/ (pc = "sd_finally" /\ ~prev.aborted)
OIPastFetch ==
  pc = "oi_create" \/ pc = "oi_mirror" \/ (pc = "oi_finally" /\ ~prev.aborted)

\* C8: a run of sync_databases.main that starts right after a run whose creates
\* all succeeded, with no external change in between, finds no missing company
\* and issues no create.
C8_CompanyReconIdempotent ==
  (SDPastFetch /\ prev.rerun /\ prev.all_ok["create"])
    => (recon.missing = <<>> /\ Creates = <<>>)

\* C8 witness: the second run has read both databases and is about to finish;
\* the run before created at least one page, all its creates succeeded, and
\* active companies exist
C8_Witness ==
  /\ pc = "sd_finally" /\ ~prev.aborted
  /\ prev.rerun /\ prev.all_ok["create"] /\ prev.n["create"] > 0
  /\ recon.active # <<>>

\* C9: every share entry created by sync_oi_issue_list.main is stored with the
\* issue title as its title and the issue's page id in its relation; and a run
\* that starts right after a run whose creates all succeeded, with no external
\* change in between, computes an empty missing list and issues no create.
C9_IssueReconIdempotent ==
  /\ \A k \in DOMAIN Creates :
       (OIPastFetch /\ Creates[k].ok) =>
         \E j \in DOMAIN share_pages :
           /\ PlainText(share_pages[j].title) = Creates[k].name
           /\ share_pages[j].reference = << Creates[k].page_id >>
  /\ (OIPastFetch /\ prev.rerun /\ prev.all_ok["create"])
       => (recon.missing = <<>> /\ Creates = <<>>)

\* C9 witness: the second run is about to finish; the run before created at
\* least one entry, all its creates succeeded, and active issues exist
C9_Witness ==
  /\ pc = "oi_finally" /\ ~prev.aborted
  /\ prev.rerun /\ prev.all_ok["create"] /\ prev.n["create"] > 0
  /\ recon.active # <<>>

\* the number of creates so far that succeeded (ok) or failed (~ok)
CountCreates(ok) == Cardinality({ k \in DOMAIN Creates : Creates[k].ok = ok })

\* C10: in both reconciliation scripts the k-th create is for the k-th item of
\* the missing list, a failed create is followed by the create of the next
\* item, the two counters are the numbers of successful and of failed creates,
\* and once the loop is over every item has been attempted exactly once, so
\* that created + failed is the size of the missing list.
C10_PartialFailureIsolation ==
  (SDPastFetch \/ OIPastFetch) =>
    /\ Len(Creates) <= Len(recon.missing)
    /\ \A k \in DOMAIN Creates :
         /\ Creates[k].name = recon.missing[k][1]
         /\ Creates[k].page_id = recon.missing[k][2]
    /\ counts.ok = CountCreates(TRUE)
    /\ counts.error = CountCreates(FALSE)
    /\ (pc \in {"sd_create", "oi_create"}) => Len(Creates) = idx - 1
    /\ (pc \in {"sd_finally", "oi_mirror", "oi_finally"}) =>
         /\ Len(Creates) = Len(recon.missing)
         /\ counts.ok + counts.error = Len(recon.missing)

\* C10 witness: three companies were missing, the second create failed, the
\* other two succeeded, and the run reports 2 created and 1 failed
C10_Witness ==
  /\ pc = "sd_finally"
  /\ Len(recon.missing) = 3
  /\ Len(Creates) = 3
  /\ Creates[1].ok /\ ~Creates[2].ok /\ Creates[3].ok
  /\ counts.ok = 2 /\ counts.error = 1

-----------------------------------------------------------------------------
(* Repeated runs of one reconciliation script over its two databases, some of
   them stopped mid-batch, with no external change.  The scheduler starts the
   script again and again, a started run goes on to its end unless it is
   stopped, reads succeed again and again, and a create that is attempted
   again and again succeeds at some attempt. *)

\* the steps of a sync_databases run that is under way
SDRunsOn == SDSummary \/ SDFinally

\* the steps of a sync_oi_issue_list run that is past its create loop
OIRunsOn ==
  \/ OISummary
  \/ \E ok \in BOOLEAN : OIMirrorUpdate(ok)
  \/ OIMirrorSkip
  \/ OIMirrorDone
  \/ OIFinally

\* sync_databases is deployed over the SU Long List and the Status Report
SDDeployed == su_pages # <<>>

\* sync_oi_issue_list is deployed over the issue list and OI List Share
OIDeployed == issue_pages # <<>>

\* a run of the deployed script starts and reads both of its databases
ReconStart == (SDDeployed /\ SDStart) \/ (OIDeployed /\ OIStart)

\* a read of the deployed script raises
ReconFetchFails == (SDDeployed /\ SDFetchFails) \/ (OIDeployed /\ OIFetchFails)

\* the next create of the run under way
ReconCreate(ok) == SDCreate(ok) \/ OICreate(ok)

\* the run under way is stopped mid-batch
ReconKilled == SDKilled \/ OIKilled

\* the run under way goes on after its create loop
ReconRunsOn == SDRunsOn \/ OIRunsOn

NextConv ==
  \/ ReconStart
  \/ ReconFetchFails
  \/ \E ok \in BOOLEAN : ReconCreate(ok)
  \/ ReconKilled
  \/ ReconRunsOn

\* one script is deployed in each behaviour, so each condition speaks of the
\* actions of that script
FairConv ==
  /\ SF_vars(ReconStart)
  /\ SF_vars(ReconCreate(TRUE))
  /\ WF_vars(ReconRunsOn)

\* the stores before the first run: every page is active by a select-typed
\* flag and the target database is still empty, so that each first run has
\* two or three items to create
InitConv ==
  /\ InitRecon
  /\ status_pages = <<>> /\ share_pages = <<>>
  /\ \A k \in DOMAIN su_pages :
       su_pages[k].Active_Flag = SelectFlag("Active") /\ su_pages[k].title # <<>>
  /\ \A k \in DOMAIN issue_pages :
       /\ issue_pages[k].Active_Flag = SelectFlag("Active")
       /\ issue_pages[k].title # <<>>
       /\ issue_pages[k].difficulty.value # None

SpecConv == InitConv /\ [][NextConv]_vars /\ FairConv

\* the names of a sequence of <<name, page id>> pairs
NamesOf(pairs) == { pairs[k][1] : k \in DOMAIN pairs }

\* no name occurs twice in a sequence of pairs
NoNameTwice(pairs) ==
  \A j, k \in DOMAIN pairs : pairs[j][1] = pairs[k][1] => j = k

\* this run follows, with no external change, a run of the same script that
\* computed a missing list
FollowsRunOf(script) ==
  prev.rerun /\ prev.last = script /\ prev.left # None

\* what a reconciliation run in or after its create loop satisfies
ReconRunConverges(script) ==
  /\ FollowsRunOf(script) => recon.missing = prev.left[1]
  /\ NamesOf(recon.missing) \cap NamesOf(prev.created[script]) = {}
  /\ NoNameTwice(prev.created[script] \o OkCreated(writes))

\* a run of the script ended and left missing items uncreated
LeftPartial(script) ==
  pc = "idle" /\ prev.last = script /\ prev.left # None /\ prev.left # Some(<<>>)

\* C11: a reconciliation run that follows a run of the same script with no
\* external change in between attempts exactly the items the earlier run left
\* uncreated (failed or not reached), and none that has been created; no name
\* is ever created twice; and after a run that left items uncreated, repeated
\* runs reach a run that reads both databases and finds nothing to create.
C11_ConvergesAfterPartialRun ==
  /\ [](SDPastFetch => ReconRunConverges("sd"))
  /\ [](OIPastFetch => ReconRunConverges("oi"))
  /\ (LeftPartial("sd") \/ LeftPartial("oi"))
       ~> (/\ recon.missing = <<>>
           /\ \/ pc = "sd_finally" /\ SDPastFetch
              \/ pc = "oi_mirror")

\* C11 witness: the run before created some companies and left others; this
\* run has attempted what was left, every create succeeded, and it is about
\* to finish
C11_Witness ==
  /\ pc = "sd_finally" /\ SDPastFetch
  /\ FollowsRunOf("sd") /\ prev.left # Some(<<>>)
  /\ prev.created["sd"] # <<>>
  /\ Len(Creates) = Len(recon.missing)
  /\ \A k \in DOMAIN Creates : Creates[k].ok

-----------------------------------------------------------------------------
(* Outcome of a run *)

\* the run is at its finally block
ReconAtFinally == pc \in { "sd_finally", "oi_finally" }

\* C12: when a reconciliation run reaches its finally block with a failed
\* create, every missing item has been attempted, status is the failure
\* outcome and exit_code is 1; with no failed create and no exception, status
\* is the success outcome and exit_code is 0; and the finally block hands that
\* status to the logger and leaves status and exit_code as they are.
C12_CreateFailureOutcome ==
  /\ [](ReconAtFinally =>
          /\ counts.error > 0 =>
               /\ Len(Creates) = Len(recon.missing)
               /\ status = Failure /\ exit_code = 1
          /\ (counts.error = 0 /\ ~prev.aborted /\ AllOk(writes, "mirror")) =>
               status = Success /\ exit_code = 0)
  /\ [][(ReconAtFinally /\ pc' = "idle") =>
          /\ logged' = Some(status)
          /\ status' = status /\ exit_code' = exit_code]_vars

\* C12 witness: a run of sync_oi_issue_list created one entry, failed to create
\* another and is at its finally block
C12_Witness ==
  pc = "oi_finally" /\ counts.ok > 0 /\ counts.error > 0

\* C13: when a run of update_business_state.main reaches its finally block
\* after a sync update failed, status is the failure outcome.
C13_SyncFailureOutcome ==
  (pc = "bs_finally" /\ ~AllOk(writes, "sync")) => status = Failure

\* C14: a run that handed the failure outcome to the logger has ended with a
\* non-zero exit code, and one that handed the success outcome with exit code 0.
C14_FailureExitsNonZero ==
  (pc = "idle" /\ logged # None) =>
    /\ logged = Some(Failure) => exit_code # 0
    /\ logged = Some(Success) => exit_code = 0

-----------------------------------------------------------------------------
(* is_active_flag over every shape of the Active Flag *)

\* the Active Flag of a page: of type select, status or multi_select, empty
\* or named, or not there at all
FlagInputs ==
  { [ type |-> type, value |-> value ] :
      type \in { "select", "status", "multi_select" },
      value \in { None, Some("Active"), Some("Inactive"), Some("active") } }
  \cup { AbsentFlag }

\* two named pages of the SU Long List with any two flags, and an empty
\* Status Report
InitFlags ==
  /\ today = StartDay
  /\ cfg_reset_days = None
  /\ \E p1 \in CompanyPages("p1", FlagInputs, { <<"A">> }) :
     \E p2 \in CompanyPages("p2", FlagInputs, { <<"B">> }) :
       su_pages = <<p1, p2>>
  /\ status_pages = <<>>
  /\ issue_pages = <<>>
  /\ share_pages = <<>>
  /\ companies = <<>>
  /\ InitRun

SpecFlags == InitFlags /\ [][NextSD]_vars

\* C15: get_active_companies, which applies is_active_flag to every page,
\* selects a named page exactly when its Active Flag is a select or a status
\* whose name is "Active"; an empty flag, another name, another type and a
\* missing flag leave the page out.
C15_IsActiveFlag ==
  SDPastFetch =>
    \A k \in DOMAIN su_pages :
      (<<PlainText(su_pages[k].title), su_pages[k].id>>
         \in { recon.active[j] : j \in DOMAIN recon.active })
      <=> su_pages[k].Active_Flag \in { SelectFlag("Active"), StatusFlag("Active") }

\* C15 witness: the first page is active by a status-typed flag, the second
\* carries the name "Active" in a flag of another type, and only the first
\* has been selected
C15_Witness ==
  /\ SDPastFetch
  /\ su_pages[1].Active_Flag = StatusFlag("Active")
  /\ su_pages[2].Active_Flag = [ type |-> "multi_select", value |-> Some("Active") ]
  /\ Len(recon.active) = 1

-----------------------------------------------------------------------------
(* The Active Flag in update_business_state and sync_oi_issue_list *)

ActiveFlags == { SelectFlag("Active"), StatusFlag("Active"), SelectFlag("Inactive") }

\* a named page of the SU Long List that is due for a sync (and, if the sync
\* fails, for a style reset), under each of the three flags
FlaggedPages(id, name) ==
  { [ page EXCEPT !.Active_Flag = flag ] :
      page \in { p \in TrackedPages(id, name) :
                   /\ p.Business_State = StyledRichText(StateSeed)
                   /\ p.status_buffer = <<>>
                   /\ p.business_status_update_day = Some(StartDay - DefaultResetDays) },
      flag \in ActiveFlags }

\* one page of the SU Long List and one issue, each under each of the flags
InitActive ==
  /\ today = StartDay
  /\ cfg_reset_days = None
  /\ \E p1 \in FlaggedPages("p1", <<"A">>) : su_pages = <<p1>>
  /\ \E i1 \in IssuePages("i1", ActiveFlags, { <<"A">> }, { Some(<<"H">>) },
                          { Some(<<"3">>) }) :
       issue_pages = <<i1>>
  /\ status_pages = <<>>
  /\ share_pages = <<>>
  /\ InitRun

NextActive == NextBS \/ NextOI

SpecActive == InitActive /\ [][NextActive]_vars

\* the run of update_business_state.main holds its snapshot of the companies
BSPastFetch ==
  pc \in { "bs_sync", "bs_reset" } \/ (pc = "bs_finally" /\ ~prev.aborted)

\* C16: a named record whose Active Flag is named "Active" is selected by
\* update_business_state.get_active_companies and by get_active_issues,
\* whether the flag is of type select or of type status.
C16_StatusFlagSelected ==
  /\ BSPastFetch =>
       \A k \in DOMAIN su_pages :
         (/\ su_pages[k].Active_Flag \in { SelectFlag("Active"), StatusFlag("Active") }
          /\ su_pages[k].title # <<>>)
           => \E j \in DOMAIN companies : companies[j].page_id = su_pages[k].id
  /\ OIPastFetch =>
       \A k \in DOMAIN issue_pages :
         (/\ issue_pages[k].Active_Flag \in { SelectFlag("Active"), StatusFlag("Active") }
          /\ ExtractTitle(issue_pages[k]) # <<>>)
           => ExtractTitle(issue_pages[k]) \in DictKeys(recon.active)

-----------------------------------------------------------------------------
(* get_company_name of both scripts, applied to one record *)

Acme == <<"A", "c", "m", "e">>
FortyTwo == <<"4", "2">>

TitleProperty(text) ==
  [ type |-> "title", title |-> IF text = <<>> THEN <<>> ELSE Title(text) ]

RollupProperty(array) == [ type |-> "rollup", rollup |-> [ array |-> array ] ]

\* what a record may carry under each of the three names get_company_name of
\* sync_databases looks up; None: the record has no such property
KigyoMeiInputs ==
  { None, Some(TitleProperty(<<>>)), Some(TitleProperty(Acme)),
    Some([ type |-> "rich_text", title |-> Title(Acme) ]) }

NameInputs ==
  { None, Some(RollupProperty(<<>>)),
    Some(RollupProperty(<< TitleProperty(<<>>), TitleProperty(<<"N">>),
                           TitleProperty(<<"M">>) >>)),
    Some(RollupProperty(<< [ type |-> "select", title |-> <<>> ] >>)),
    Some(TitleProperty(<<"N">>)) }

NoInputs ==
  { None, Some(TitleProperty(<<>>)), Some(TitleProperty(FortyTwo)),
    Some(TitleProperty(<<"X", "1">>)) }

\* the <<name, value>> items of a record with the given properties
ItemsOf(kigyo_mei, name, no) ==
  (IF kigyo_mei = None THEN {} ELSE { <<"KigyoMei", kigyo_mei[1]>> })
  \cup (IF name = None THEN {} ELSE { <<"Name", name[1]>> })
  \cup (IF no = None THEN {} ELSE { <<"No", no[1]>> })

\* the orders in which a dict may list the items
Orderings(items) ==
  { order \in [ 1..Cardinality(items) -> items ] :
      \A i, j \in DOMAIN order : order[i] = order[j] => i = j }

\* page['properties'] of every record, in every order of its properties
PropertyInputs ==
  UNION { Orderings(ItemsOf(kigyo_mei, name, no)) :
            kigyo_mei \in KigyoMeiInputs, name \in NameInputs, no \in NoInputs }

\* the dict as a mapping from names to values
AsMapping(properties) ==
  [ key \in DictKeys(properties) |-> DictGet(properties, key) ]

InitNames ==
  /\ today = StartDay
  /\ cfg_reset_days = None
  /\ su_pages = <<>> /\ status_pages = <<>>
  /\ issue_pages = <<>> /\ share_pages = <<>>
  /\ pc = "idle" /\ companies = <<>> /\ recon = EmptyRecon /\ idx = 1
  /\ updated_page_ids = {} /\ reset_days = DefaultResetDays
  /\ counts = ZeroCounts /\ status = Success /\ exit_code = 0
  /\ logged = None /\ writes = <<>> /\ edits = 0
  /\ sys_stdout = "original"
  /\ prev = [ all_ok |-> [ op \in Ops |-> FALSE ], n |-> [ op \in Ops |-> 0 ],
             quiet |-> FALSE, rerun |-> FALSE, aborted |-> FALSE,
             created |-> [ script \in { "bs", "sd", "oi" } |-> <<>> ],
             left |-> None, last |-> "bs" ]
  /\ \E fn \in { "sync_databases.get_company_name",
                 "update_business_state.get_company_name" } :
     \E properties \in PropertyInputs :
       call = [ fn |-> fn, args |-> properties, result |-> <<>> ]

\* sync_databases.get_company_name(page)
SDApplyGetCompanyName ==
  /\ call.fn = "sync_databases.get_company_name"
  /\ call.result = <<>>
  /\ call' = [call EXCEPT !.result = << GetCompanyName(AsMapping(call.args)) >>]
  /\ UNCHANGED <<sys_stdout, today, cfg_reset_days, su_pages, status_pages, issue_pages,
                 share_pages, pc, companies, recon, idx, updated_page_ids,
                 reset_days, counts, status, exit_code, logged, writes, prev,
                 edits>>

\* update_business_state.get_company_name(page)
BSApplyGetCompanyName ==
  /\ call.fn = "update_business_state.get_company_name"
  /\ call.result = <<>>
  /\ call' = [call EXCEPT !.result = << FirstTitleProperty(call.args) >>]
  /\ UNCHANGED <<sys_stdout, today, cfg_reset_days, su_pages, status_pages, issue_pages,
                 share_pages, pc, companies, recon, idx, updated_page_ids,
                 reset_days, counts, status, exit_code, logged, writes, prev,
                 edits>>

NextNames == SDApplyGetCompanyName \/ BSApplyGetCompanyName

SpecNames == InitNames /\ [][NextNames]_vars

\* the three candidates in their order of priority, each None when absent,
\* empty or rejected
IdentityCandidates(properties) ==
  LET has(key, type) == key \in DOMAIN properties /\ properties[key].type = type
      array == properties["Name"].rollup.array
      titled == { i \in DOMAIN array : array[i].type = "title" /\ array[i].title # <<>> }
      first == CHOOSE i \in titled : \A j \in titled : i <= j
  IN << IF has("KigyoMei", "title") /\ properties["KigyoMei"].title # <<>>
        THEN Some(PlainText(properties["KigyoMei"].title)) ELSE None,
        IF has("Name", "rollup") /\ titled # {}
        THEN Some(PlainText(array[first].title)) ELSE None,
        IF /\ has("No", "title") /\ properties["No"].title # <<>>
           /\ \E i \in DOMAIN PlainText(properties["No"].title) :
                PlainText(properties["No"].title)[i] \notin Digits
        THEN Some(PlainText(properties["No"].title)) ELSE None >>

\* C17: sync_databases.get_company_name returns the first candidate there is
\* in the order 'KigyoMei' title, first non-empty title item of the 'Name'
\* rollup, non-numeric 'No' title, and None when there is none; title "Acme"
\* with 'No' "42" gives "Acme", and 'No' "42" alone gives None.
C17_IdentityPriority ==
  (call.fn = "sync_databases.get_company_name" /\ call.result # <<>>) =>
    LET properties == AsMapping(call.args)
        candidates == IdentityCandidates(properties)
        found == { i \in 1..3 : candidates[i] # None }
    IN /\ found = {} => call.result[1] = None
       /\ found # {} =>
            call.result[1] = candidates[CHOOSE i \in found : \A j \in found : i <= j]
       /\ (/\ "KigyoMei" \in DOMAIN properties
           /\ properties["KigyoMei"] = TitleProperty(Acme)
           /\ "No" \in DOMAIN properties
           /\ properties["No"] = TitleProperty(FortyTwo))
            => call.result[1] = Some(Acme)
       /\ (DOMAIN properties = { "No" } /\ properties["No"] = TitleProperty(FortyTwo))
            => call.result[1] = None

\* C17 witness: the record has the title "Acme", a 'Name' rollup with titles
\* and the 'No' "42", and the call returned "Acme"
C17_Witness ==
  /\ call.fn = "sync_databases.get_company_name"
  /\ call.result = << Some(Acme) >>
  /\ DictKeys(call.args) = { "KigyoMei", "Name", "No" }
  /\ DictGet(call.args, "No") = TitleProperty(FortyTwo)
  /\ DictGet(call.args, "Name").type = "rollup"

\* C18: the result of get_company_name, in both scripts, is the same for
\* every order in which the record's properties are listed.
C18_OrderIndependent ==
  call.result # <<>> =>
    \A properties \in Orderings({ call.args[i] : i \in DOMAIN call.args }) :
      call.result[1] =
        IF call.fn = "sync_databases.get_company_name"
        THEN GetCompanyName(AsMapping(properties))
        ELSE FirstTitleProperty(properties)

-----------------------------------------------------------------------------
(* Properties of copy_reference_properties *)

\* the run holds the pages copy_reference_properties has read
OIMirroring == pc \in { "oi_mirror", "oi_finally" }

\* the normalized text of a property of a page as read
TextOf(properties, field) == ExtractPlainTextFromProperty(Some(properties[field]))

\* every source text of the record is empty or is the text of its target
Mirrored(properties) ==
  \A k \in DOMAIN ReferencePairs :
    \/ TextOf(properties, ReferencePairs[k][1]) = <<>>
    \/ TextOf(properties, ReferencePairs[k][1]) = TextOf(properties, ReferencePairs[k][2])

\* the update calls copy_reference_properties has issued for a page
MirrorWritesOf(page_id) ==
  { k \in DOMAIN writes : writes[k].op = "mirror" /\ writes[k].page_id = page_id }

\* C19: copy_reference_properties issues no update for a record in which
\* every source text is empty or equals the target's text, and none at all
\* when every record it read is like that.
C19_MirrorNoOp ==
  OIMirroring =>
    /\ \A j \in DOMAIN companies :
         Mirrored(companies[j].properties) => MirrorWritesOf(companies[j].id) = {}
    /\ (\A j \in DOMAIN companies : Mirrored(companies[j].properties))
         => CountOps(writes, "mirror") = 0

\* C19 witness: the pass is over, every record read was already mirrored, one
\* of them with a non-empty source text, and no update was issued
C19_Witness ==
  /\ pc = "oi_finally"
  /\ companies # <<>>
  /\ \A j \in DOMAIN companies : Mirrored(companies[j].properties)
  /\ \E j \in DOMAIN companies : TextOf(companies[j].properties, "difficulty_ref") # <<>>
  /\ CountOps(writes, "mirror") = 0

\* the target of the pair is a number and the source text is no numeral
Malformed(properties, source_field, target_field) ==
  /\ properties[target_field].type = "number"
  /\ TextOf(properties, source_field) # <<>>
  /\ ~IsDigit(Strip(TextOf(properties, source_field)))

\* the pair's source text is there and differs from the target's text
Differs(properties, source_field, target_field) ==
  /\ TextOf(properties, source_field) # <<>>
  /\ TextOf(properties, source_field) # TextOf(properties, target_field)

\* copy_reference_properties has gone past the j-th record it read
MirrorPast(j) ==
  \/ pc = "oi_mirror" /\ idx > j
  \/ pc = "oi_finally" /\ AllOk(writes, "mirror") /\ companies # <<>>

\* C20: a record whose 'difficulty_ref' text is no numeral gets no update of
\* 'difficulty'; if its 'affinity' differs from 'affinity_ref' it still gets
\* its one update, of 'affinity' alone; the records after it are processed as
\* usual; and a run without failed creates, reads or updates still ends with
\* the success outcome.
C20_MalformedValueSkipped ==
  OIMirroring =>
    /\ \A j \in DOMAIN companies :
         LET properties == companies[j].properties
             ws == MirrorWritesOf(companies[j].id)
         IN /\ Malformed(properties, "difficulty_ref", "difficulty") =>
                 /\ \A k \in ws : "difficulty" \notin DOMAIN writes[k].properties
                 /\ (MirrorPast(j) /\ Differs(properties, "affinity_ref", "affinity"))
                      => /\ Cardinality(ws) = 1
                         /\ \A k \in ws : DOMAIN writes[k].properties = { "affinity" }
            /\ (/\ MirrorPast(j)
                /\ \/ Differs(properties, "affinity_ref", "affinity")
                   \/ /\ Differs(properties, "difficulty_ref", "difficulty")
                      /\ ~Malformed(properties, "difficulty_ref", "difficulty"))
                 => Cardinality(ws) = 1
    /\ (/\ pc = "oi_finally" /\ ~prev.aborted /\ counts.error = 0
        /\ AllOk(writes, "mirror"))
         => status = Success /\ exit_code = 0

\* C20 witness: the pass is over without a failure; a record with a malformed
\* 'difficulty_ref' got its 'affinity' written, a record after it was
\* updated too, and the run ends with the success outcome
C20_Witness ==
  /\ pc = "oi_finally" /\ status = Success /\ AllOk(writes, "mirror")
  /\ \E j, later \in DOMAIN companies :
       /\ j < later
       /\ Malformed(companies[j].properties, "difficulty_ref", "difficulty")
       /\ \E k \in MirrorWritesOf(companies[j].id) :
            DOMAIN writes[k].properties = { "affinity" }
       /\ MirrorWritesOf(companies[later].id) # {}

(* Failures of the mirror pass *)

\* the record has an update staged by copy_reference_properties
Staged(properties) == UpdatePayload(properties, ReferencePairs, EmptyPayload) # EmptyPayload

\* C21: when an update of copy_reference_properties has failed, the pass still
\* goes on: by the end of the run every record read with a staged update has
\* had its update attempted.
C21_MirrorFailureRecovered ==
  (pc = "oi_finally" /\ ~AllOk(writes, "mirror")) =>
    \A j \in DOMAIN companies :
      Staged(companies[j].properties) => MirrorWritesOf(companies[j].id) # {}

(* Independence of the records in update_business_state *)

\* the run is in its sync pass, or past it
BSSyncing == pc = "bs_sync" /\ companies # <<>>
BSPastSync == pc = "bs_reset" \/ (pc = "bs_finally" /\ ~prev.aborted)
BSPastReset == pc = "bs_finally" /\ ~prev.aborted

\* the record of the snapshot is eligible for the style expiry of this run: it
\* is highlighted, its update day is at or before today minus the window, and
\* it was not synced successfully in this run
ExpireEligible(company) ==
  /\ company.properties.business_state_styled
  /\ company.properties.business_status_update_day # None
  /\ company.properties.business_status_update_day[1] + LoadResetDays(cfg_reset_days)
       <= today
  /\ \A k \in WritesOf("sync", company.page_id) : ~writes[k].ok

FailedWrites(op) == { k \in DOMAIN writes : writes[k].op = op /\ ~writes[k].ok }

\* C22: whatever writes fail, a record of the snapshot has had exactly one sync
\* attempt once the sync pass went over it if it was Diverged (none otherwise),
\* and exactly one expire attempt once the expiry pass went over it if it is
\* eligible (none otherwise); the failures are counted and both passes run to
\* their end.
C22_PerRecordIndependence ==
  \A j \in DOMAIN companies :
    LET company == companies[j]
        syncs == Cardinality(WritesOf("sync", company.page_id))
        resets == Cardinality(WritesOf("reset", company.page_id))
    IN /\ (BSPastSync \/ (BSSyncing /\ j < idx)) =>
            /\ syncs = (IF NeedsSync(company) THEN 1 ELSE 0)
            /\ BSSyncing => counts.error = Cardinality(FailedWrites("sync"))
       /\ (BSSyncing /\ j >= idx) => syncs = 0
       /\ (BSPastReset \/ (pc = "bs_reset" /\ j < idx)) =>
            /\ resets = (IF ExpireEligible(company) THEN 1 ELSE 0)
            /\ counts.error = Cardinality(FailedWrites("reset"))
       /\ (pc = "bs_reset" /\ j >= idx) => resets = 0

\* C22 witness: the run is over; the sync of the first record failed, the
\* second record was synced after it, and the first record's expire attempt
\* was made (and failed) all the same
C22_Witness ==
  /\ BSPastReset /\ Len(companies) = 2
  /\ \E k \in WritesOf("sync", companies[1].page_id) : ~writes[k].ok
  /\ \E k \in WritesOf("sync", companies[2].page_id) : writes[k].ok
  /\ \E k \in WritesOf("reset", companies[1].page_id) : ~writes[k].ok

-----------------------------------------------------------------------------
(* fetch_all_pages *)

MaxPages == 3
MaxPageSize == 2
MaxRequests == 5

\* the pages of a collection whose records are numbered from 'first' on, given
\* the number of records on each page
RECURSIVE PagesOf(_, _)
PagesOf(sizes, first) ==
  IF sizes = <<>> THEN <<>>
  ELSE << [ i \in 1..sizes[1] |-> first + i - 1 ] >>
         \o PagesOf(Tail(sizes), first + sizes[1])

\* the stores: the pages of the collection, and the pages whose response says
\* has_more without giving a next_cursor
Stores ==
  { [ pages |-> PagesOf(sizes, 1), no_cursor |-> no_cursor ] :
      sizes \in UNION { [ 1..n -> 0..MaxPageSize ] : n \in 0..MaxPages },
      no_cursor \in SUBSET (1..(MaxPages - 1)) }

\* every response with has_more carries a next_cursor
WellFormed(store) == store.no_cursor \cap (1..(Len(store.pages) - 1)) = {}

\* notion_database_query / notion.databases.query: the response to a request;
\* a request without start_cursor is answered with the first page
Query(store, start_cursor) ==
  LET position == IF start_cursor = None THEN 1 ELSE start_cursor[1]
      has_more == position < Len(store.pages)
  IN [ results |-> IF position \in DOMAIN store.pages THEN store.pages[position]
                   ELSE <<>>,
       has_more |-> has_more,
       next_cursor |-> IF has_more /\ position \notin store.no_cursor
                       THEN Some(position + 1) ELSE None ]

\* fetch_all_pages before its loop
FetchCall(store) ==
  [ fn |-> "fetch_all_pages", args |-> store, all_results |-> <<>>,
    has_more |-> TRUE, start_cursor |-> None, requests |-> <<>>,
    responses |-> <<>>, result |-> None ]

InitFetch ==
  /\ today = StartDay
  /\ cfg_reset_days = None
  /\ su_pages = <<>> /\ status_pages = <<>>
  /\ issue_pages = <<>> /\ share_pages = <<>>
  /\ pc = "idle" /\ companies = <<>> /\ recon = EmptyRecon /\ idx = 1
  /\ updated_page_ids = {} /\ reset_days = DefaultResetDays
  /\ counts = ZeroCounts /\ status = Success /\ exit_code = 0
  /\ logged = None /\ writes = <<>> /\ edits = 0
  /\ sys_stdout = "original"
  /\ prev = [ all_ok |-> [ op \in Ops |-> FALSE ], n |-> [ op \in Ops |-> 0 ],
             quiet |-> FALSE, rerun |-> FALSE, aborted |-> FALSE,
             created |-> [ script \in { "bs", "sd", "oi" } |-> <<>> ],
             left |-> None, last |-> "bs" ]
  /\ \E store \in Stores : call = FetchCall(store)

\* mutant: the cursor of the response is not carried to the next request
FetchRequest_DropsCursor ==
  /\ call.fn = "fetch_all_pages"
  /\ call.result = None
  /\ call.has_more
  /\ Len(call.requests) < MaxRequests
  /\ LET response == Query(call.args, call.start_cursor)
     IN call' = [call EXCEPT !.all_results = @ \o response.results,
                             !.has_more = response.has_more,
                             !.start_cursor = None,
                             !.requests = Append(@, call.start_cursor),
                             !.responses = Append(@, response)]
  /\ UNCHANGED <<sys_stdout, today, cfg_reset_days, su_pages, status_pages, issue_pages,
                 share_pages, pc, companies, recon, idx, updated_page_ids,
                 reset_days, counts, status, exit_code, logged, writes, prev,
                 edits>>

\* fetch_all_pages, one iteration of 'while has_more'
FetchRequest ==
  /\ call.fn = "fetch_all_pages"
  /\ call.result = None
  /\ call.has_more
  /\ Len(call.requests) < MaxRequests
  /\ LET response == Query(call.args, call.start_cursor)
     IN call' = [call EXCEPT !.all_results = @ \o response.results,
                             !.has_more = response.has_more,
                             !.start_cursor = response.next_cursor,
                             !.requests = Append(@, call.start_cursor),
                             !.responses = Append(@, response)]
  /\ UNCHANGED <<sys_stdout, today, cfg_reset_days, su_pages, status_pages, issue_pages,
                 share_pages, pc, companies, recon, idx, updated_page_ids,
                 reset_days, counts, status, exit_code, logged, writes, prev,
                 edits>>

\* fetch_all_pages: the loop is left and all_results is returned
FetchReturn ==
  /\ call.fn = "fetch_all_pages"
  /\ call.result = None
  /\ ~call.has_more
  /\ call' = [call EXCEPT !.result = Some(call.all_results)]
  /\ UNCHANGED <<sys_stdout, today, cfg_reset_days, su_pages, status_pages, issue_pages,
                 share_pages, pc, companies, recon, idx, updated_page_ids,
                 reset_days, counts, status, exit_code, logged, writes, prev,
                 edits>>

NextFetch == FetchRequest \/ FetchReturn

\* the loop keeps running while it can
SpecFetch == InitFetch /\ [][NextFetch]_vars /\ WF_vars(NextFetch)

RECURSIVE Flatten(_)
Flatten(pages) == IF pages = <<>> THEN <<>> ELSE pages[1] \o Flatten(Tail(pages))

NoRecordTwice(records) ==
  \A i, j \in DOMAIN records : records[i] = records[j] => i = j

Fetching == call.fn = "fetch_all_pages"

\* what holds of a fetch while it runs and when it has returned: the first
\* request has no cursor, each later one has the next_cursor of the response
\* before it, no request follows a response without has_more, the records
\* gathered are those of the pages requested, in order; the result is every
\* record of the collection once, in the pages' order, after one request per
\* page (one request for an empty collection)
FetchedInOrder ==
  /\ \A i \in DOMAIN call.requests :
       /\ i = 1 => call.requests[i] = None
       /\ i > 1 => /\ call.requests[i] = call.responses[i - 1].next_cursor
                   /\ call.responses[i - 1].has_more
  /\ call.all_results = Flatten([ i \in DOMAIN call.responses |->
                                    call.responses[i].results ])
  /\ NoRecordTwice(call.all_results)
  /\ call.result # None =>
       /\ call.result[1] = Flatten(call.args.pages)
       /\ Len(call.requests) = (IF call.args.pages = <<>> THEN 1
                                ELSE Len(call.args.pages))
       /\ ~call.responses[Len(call.responses)].has_more
       /\ call.args.pages = <<>> => call.result[1] = <<>>

\* C23 as stated: the above for every store, also one that answers has_more
\* without a next_cursor
C23_FetchAllPagesAnyStore == Fetching => FetchedInOrder

\* C23, amended: for every store whose responses carry a next_cursor whenever
\* they say has_more, fetch_all_pages returns, and what it requests, gathers
\* and returns is as described above.
C23_FetchAllPages ==
  /\ []((Fetching /\ WellFormed(call.args)) => FetchedInOrder)
  /\ []((Fetching /\ WellFormed(call.args)) => <>(call.result # None))

\* C23 witness: a collection of three pages and four records was fetched with
\* three requests
C23_Witness ==
  /\ Fetching /\ WellFormed(call.args)
  /\ call.result = Some(<<1, 2, 3, 4>>)
  /\ call.requests = << None, Some(2), Some(3) >>

-----------------------------------------------------------------------------
(* Reads that raise *)

\* C24: once a read of the store has raised in a run, the run is at or past
\* its finally block, so it attempts no create or update any more; the status
\* it is about to hand to save_execution_log is the failure status, and when
\* it is over save_execution_log has received the failure status.
C24_ReadFailureRecorded ==
  prev.aborted =>
    /\ pc \in { "bs_finally", "sd_finally", "oi_finally", "idle" }
    /\ pc # "idle" => status = Failure
    /\ pc = "idle" => logged = Some(Failure)

-----------------------------------------------------------------------------
(* automation/execution_logger.py: LogCapture *)

MaxWrites == 4

\* a LogCapture object before start(), with what reached the console and what
\* went through sys.stdout while the capture was on
NewLogCapture ==
  [ fn |-> "LogCapture", log |-> <<>>, console |-> <<>>, started |-> FALSE,
    stopped |-> FALSE, printed |-> <<>>, during |-> <<>> ]

InitLog ==
  /\ today = StartDay
  /\ cfg_reset_days = None
  /\ su_pages = <<>> /\ status_pages = <<>>
  /\ issue_pages = <<>> /\ share_pages = <<>>
  /\ pc = "idle" /\ companies = <<>> /\ recon = EmptyRecon /\ idx = 1
  /\ updated_page_ids = {} /\ reset_days = DefaultResetDays
  /\ counts = ZeroCounts /\ status = Success /\ exit_code = 0
  /\ logged = None /\ writes = <<>> /\ edits = 0
  /\ sys_stdout = "original"
  /\ prev = [ all_ok |-> [ op \in Ops |-> FALSE ], n |-> [ op \in Ops |-> 0 ],
             quiet |-> FALSE, rerun |-> FALSE, aborted |-> FALSE,
             created |-> [ script \in { "bs", "sd", "oi" } |-> <<>> ],
             left |-> None, last |-> "bs" ]
  /\ call = NewLogCapture

\* LogCapture.start()
LogCaptureStart ==
  /\ call.fn = "LogCapture"
  /\ ~call.started
  /\ sys_stdout' = "capture"
  /\ call' = [call EXCEPT !.started = TRUE]
  /\ UNCHANGED <<today, cfg_reset_days, su_pages, status_pages, issue_pages,
                 share_pages, pc, companies, recon, idx, updated_page_ids,
                 reset_days, counts, status, exit_code, logged, writes, prev,
                 edits>>

\* print(text): sys.stdout.write(text), which is LogCapture.write while the
\* capture is installed and the original stream's write otherwise
StdoutWrite(text) ==
  /\ call.fn = "LogCapture"
  /\ Len(call.printed) < MaxWrites
  /\ call' = [call EXCEPT
                !.log = IF sys_stdout = "capture" THEN Append(@, text) ELSE @,
                !.console = Append(@, text),
                !.printed = Append(@, text),
                !.during = IF call.started /\ ~call.stopped THEN Append(@, text)
                           ELSE @]
  /\ UNCHANGED <<sys_stdout, today, cfg_reset_days, su_pages, status_pages,
                 issue_pages, share_pages, pc, companies, recon, idx,
                 updated_page_ids, reset_days, counts, status, exit_code,
                 logged, writes, prev, edits>>

\* LogCapture.stop()
LogCaptureStop ==
  /\ call.fn = "LogCapture"
  /\ call.started /\ ~call.stopped
  /\ sys_stdout' = "original"
  /\ call' = [call EXCEPT !.stopped = TRUE]
  /\ UNCHANGED <<today, cfg_reset_days, su_pages, status_pages, issue_pages,
                 share_pages, pc, companies, recon, idx, updated_page_ids,
                 reset_days, counts, status, exit_code, logged, writes, prev,
                 edits>>

NextLog ==
  \/ LogCaptureStart
  \/ \E text \in { "a", "b" } : StdoutWrite(text)
  \/ LogCaptureStop

SpecLog == InitLog /\ [][NextLog]_vars

\* C25: what was printed between start() and stop() is in the capture buffer
\* and, like everything printed, on the original stream; after stop()
\* sys.stdout is the original stream; and when no run of an entry point is
\* under way sys.stdout is the original stream, whichever way the last run
\* ended.
C25_LogCaptureScoped ==
  /\ call.fn = "LogCapture" =>
       /\ call.log = call.during
       /\ call.console = call.printed
       /\ call.stopped => sys_stdout = "original"
  /\ (call.fn # "LogCapture" /\ pc = "idle") => sys_stdout = "original"

-----------------------------------------------------------------------------
(* Records that share an identity *)

\* per source record in fetch order: its <<identity, id>> when it is active
\* and has an identity, None otherwise
ActiveSources ==
  IF RunningScript = "sd"
  THEN [ k \in DOMAIN su_pages |->
           LET properties == SUProperties(su_pages[k])
               company_name == GetCompanyName(properties)
           IN IF IsActiveFlag(properties) /\ company_name # None /\ company_name[1] # <<>>
              THEN Some(<<company_name[1], su_pages[k].id>>) ELSE None ]
  ELSE [ k \in DOMAIN issue_pages |->
           IF OIIsActive(issue_pages[k]) /\ ExtractTitle(issue_pages[k]) # <<>>
           THEN Some(<<ExtractTitle(issue_pages[k]), issue_pages[k].id>>) ELSE None ]

\* the positions of the active source records with the identity, and the last
SourcesNamed(name) ==
  { k \in DOMAIN ActiveSources :
      ActiveSources[k] # None /\ ActiveSources[k][1][1] = name }

LastNamed(name) ==
  CHOOSE k \in SourcesNamed(name) : \A j \in SourcesNamed(name) : j <= k

CreatesNamed(name) ==
  { k \in DOMAIN writes : writes[k].op = "create" /\ writes[k].name = name }

\* C26: in both reconciliation scripts the map of active identities has one
\* entry per identity of an active source record, with the id of the last such
\* record in fetch order; a run attempts at most one create per identity, its
\* relation links to that last record and to nothing else, and no create is
\* made for an earlier record of the identity.
C26_LastWriteWins ==
  (SDPastFetch \/ OIPastFetch) =>
    /\ NoNameTwice(recon.active)
    /\ NamesOf(recon.active) =
         { ActiveSources[k][1][1] : k \in { j \in DOMAIN ActiveSources :
                                             ActiveSources[j] # None } }
    /\ \A name \in NamesOf(recon.active) :
         LET last == ActiveSources[LastNamed(name)][1][2]
         IN /\ DictGet(recon.active, name) = last
            /\ Cardinality(CreatesNamed(name)) <= 1
            /\ \A k \in CreatesNamed(name) :
                 /\ writes[k].page_id = last
                 /\ writes[k].properties.reference = << last >>
            /\ \A j \in SourcesNamed(name) \ { LastNamed(name) } :
                 \A k \in DOMAIN writes :
                   writes[k].op = "create" =>
                     /\ writes[k].page_id # ActiveSources[j][1][2]
                     /\ writes[k].properties.reference # << ActiveSources[j][1][2] >>

\* C26 witness: two active source records share an identity and the target
\* record of that identity was created, linked to the later one
C26_Witness ==
  /\ SDPastFetch \/ OIPastFetch
  /\ \E name \in NamesOf(recon.active) :
       /\ Cardinality(SourcesNamed(name)) >= 2
       /\ \E k \in CreatesNamed(name) :
            /\ writes[k].ok
            /\ writes[k].page_id = ActiveSources[LastNamed(name)][1][2]

-----------------------------------------------------------------------------
(* What sync_databases reads back of what it created *)

\* a target record carrying the two fields add_company_to_status_report
\* writes and nothing else
WrittenProperties(page) ==
  [ Company_Name |-> [ type |-> "title", title |-> page.title ],
    reference |-> [ type |-> "relation", relation |-> page.reference ] ]

\* the pages of the Status Report that the k-th call of this run created
CreatedBy(k) ==
  { j \in DOMAIN status_pages :
      /\ status_pages[j].title = writes[k].properties.title
      /\ status_pages[j].reference = writes[k].properties.reference }

OkCreates == { k \in DOMAIN writes : writes[k].op = "create" /\ writes[k].ok }

\* C27 as stated: get_company_name on the two written fields alone gives the
\* name the record was created for
C27_RoundTripWithoutRollup ==
  (pc \in { "sd_create", "sd_finally" }) =>
    \A k \in OkCreates : \A j \in CreatedBy(k) :
      GetCompanyName(WrittenProperties(status_pages[j])) = Some(writes[k].name)

\* C27, amended: get_company_name on a created record as a query returns it,
\* with the 'Name' rollup the store computes over 'reference', gives the name
\* the record was created for, and get_status_report_companies lists the
\* record under that name; on the two written fields alone it gives None.
C27_RoundTripThroughRollup ==
  (pc \in { "sd_create", "sd_finally" }) =>
    \A k \in OkCreates :
      /\ CreatedBy(k) # {}
      /\ \A j \in CreatedBy(k) :
           /\ GetCompanyName(StatusProperties(status_pages[j], su_pages))
                = Some(writes[k].name)
           /\ GetCompanyName(WrittenProperties(status_pages[j])) = None
           /\ writes[k].name
                \in DictKeys(GetStatusReportCompanies(status_pages, su_pages, <<>>))
           /\ DictGet(GetStatusReportCompanies(status_pages, su_pages, <<>>),
                      writes[k].name) = status_pages[j].id

\* C27 witness: the run created the record of company "B", linked to a page of
\* the SU Long List
C27_Witness ==
  /\ pc = "sd_finally"
  /\ \E k \in OkCreates :
       /\ writes[k].name = <<"B">>
       /\ CreatedBy(k) # {}

-----------------------------------------------------------------------------
(* The highlight of a synced record over the runs that follow *)

\* the page was synced by a run and nobody has edited a Business State since:
\* every log starts empty, so a log entry is the trace of a successful sync,
\* and business_status_update_day is the day D of the latest one
SyncedAndUntouched(page) ==
  /\ edits = 0
  /\ page.business_state_log # <<>>
  /\ page.business_status_update_day # None

\* a run has gone through both passes with every write succeeding
BSRunAllOk ==
  /\ pc = "bs_finally" /\ ~prev.aborted
  /\ AllOk(writes, "sync") /\ AllOk(writes, "reset")

-----------------------------------------------------------------------------
(* A sync whose update raises *)

\* the step appends a failed sync update to the history
FailedSyncStep ==
  /\ Len(writes') = Len(writes) + 1
  /\ writes'[Len(writes')].op = "sync"
  /\ ~writes'[Len(writes')].ok

\* C29: the step in which the update of sync_business_state raises changes no
\* page, adds nothing to the just-updated set and counts one error; for the
\* rest of the run the record is Diverged, with the buffer, Last State, update
\* day and log it had, and is not in the just-updated set; and a run that
\* follows a run with a failed sync, with no change in between, attempts a
\* sync again, each attempt appending its one entry to the log as it is in
\* the store.
C29_FailedSyncLeavesRecord ==
  /\ [][FailedSyncStep =>
          /\ su_pages' = su_pages
          /\ updated_page_ids' = updated_page_ids
          /\ counts'.error = counts.error + 1
          /\ counts'.ok = counts.ok]_vars
  /\ [](pc \in { "bs_sync", "bs_reset", "bs_finally" } =>
          \A k \in DOMAIN writes :
            writes[k].op = "sync" =>
              LET page == PageById(su_pages, writes[k].page_id)
                  before == writes[k].before
              IN /\ writes[k].properties.business_state_log
                      = UpdatedLog(before.business_state_log,
                                   PlainText(before.Business_State), today)
                 /\ ~writes[k].ok =>
                      /\ writes[k].page_id \notin updated_page_ids
                      /\ ~Converged(page)
                      /\ PlainText(page.Business_State) = PlainText(before.Business_State)
                      /\ page.status_buffer = before.status_buffer
                      /\ page.Last_State = before.Last_State
                      /\ page.business_status_update_day = before.business_status_update_day
                      /\ page.business_state_log = before.business_state_log)
  /\ []((/\ BSPastSync /\ prev.rerun
         /\ prev.n["sync"] > 0 /\ ~prev.all_ok["sync"])
          => CountOps(writes, "sync") > 0)

\* C29 witness: the previous run had a failed sync; this run, started with no
\* change in between, has synced a record whose log was still empty and now
\* holds the one entry
C29_Witness ==
  /\ pc = "bs_finally" /\ prev.rerun
  /\ prev.n["sync"] > 0 /\ ~prev.all_ok["sync"]
  /\ \E k \in DOMAIN writes :
       /\ writes[k].op = "sync" /\ writes[k].ok
       /\ writes[k].before.business_state_log = <<>>
       /\ PageById(su_pages, writes[k].page_id).business_state_log
            = NewLogEntry(PlainText(writes[k].before.Business_State), today)

-----------------------------------------------------------------------------
(* The creates of sync_oi_issue_list *)

\* OI List Share as the run read it: without the entries the run has created
ShareAsRead ==
  SubSeq(share_pages, 1, Len(share_pages) - Len(OkCreated(writes)))

\* C30: every create of a run of sync_oi_issue_list is for an issue of the
\* list that has a select flag named 'Active' and a non-empty title, whose
\* title no share entry had and whose id no share entry linked to when the
\* run read them; the create carries that title and one relation, to the
\* issue's id.
C30_CreateOnlyUnmatched ==
  (pc \in { "oi_create", "oi_mirror", "oi_finally" }) =>
    \A k \in DOMAIN writes :
      writes[k].op = "create" =>
        /\ \E i \in DOMAIN issue_pages :
             /\ issue_pages[i].id = writes[k].page_id
             /\ issue_pages[i].Active_Flag = SelectFlag("Active")
             /\ Strip(PlainText(issue_pages[i].title)) = writes[k].name
        /\ writes[k].name # <<>>
        /\ \A j \in DOMAIN ShareAsRead :
             /\ Strip(PlainText(ShareAsRead[j].title)) # writes[k].name
             /\ \A r \in DOMAIN ShareAsRead[j].reference :
                  ShareAsRead[j].reference[r] # writes[k].page_id
        /\ PlainText(writes[k].properties.title) = writes[k].name
        /\ writes[k].properties.reference = << writes[k].page_id >>

\* C30 witness: the run created the entry of issue "i2" while issue "i1",
\* active and titled otherwise, was already linked by an entry and got none
C30_Witness ==
  /\ pc = "oi_finally"
  /\ \E k \in DOMAIN writes :
       writes[k].op = "create" /\ writes[k].ok /\ writes[k].page_id = "i2"
  /\ \A k \in DOMAIN writes : writes[k].op = "create" => writes[k].page_id # "i1"
  /\ \E i \in DOMAIN issue_pages :
       /\ issue_pages[i].id = "i1"
       /\ issue_pages[i].Active_Flag = SelectFlag("Active")
       /\ Strip(PlainText(issue_pages[i].title)) = <<"A">>
  /\ \E j \in DOMAIN ShareAsRead : ShareAsRead[j].reference = << "i1" >>
  /\ \A j \in DOMAIN ShareAsRead : Strip(PlainText(ShareAsRead[j].title)) # <<"A">>

====
